---- MODULE Spec2Model ----
(***************************************************************************)
(* A model of confy's merge-and-resolution engine (src/confy/loader.py).   *)
(*                                                                         *)
(* Python strings are sequences of one-character strings, so that split,   *)
(* replace, lower, startswith and sorted act on characters as the code     *)
(* does.  A Python dict is an insertion-ordered list of key/value pairs;   *)
(* a Config is a dict whose flag c is TRUE.                                *)
(***************************************************************************)
EXTENDS Integers, Sequences, FiniteSets, TLC

\* ------------------------------------------------------------------------
\* Strings
\* ------------------------------------------------------------------------

\* The characters of the model in code-point order (Python compares strings
\* by code point).
CharOrder ==
    <<
      " ", "\"", "#", "+", "-", ".", "0", "1", "2", "3", "4", "5", "6",
      "7", "8", "9", "A", "B", "C", "D", "E", "F", "G", "H", "I", "J", "K",
      "L", "M", "N", "O", "P", "Q", "R", "S", "T", "U", "V", "W", "X", "Y",
      "Z", "[", "]", "_", "a", "b", "c", "d", "e", "f", "g", "h", "i", "j",
      "k", "l", "m", "n", "o", "p", "q", "r", "s", "t", "u", "v", "w", "x",
      "y", "z", "{", "}"
    >>

Ord(ch) == CHOOSE i \in 1..Len(CharOrder) : CharOrder[i] = ch

Digits == {"0", "1", "2", "3", "4", "5", "6", "7", "8", "9"}

DigitVal(ch) == Ord(ch) - Ord("0")

UpperChars ==
    <<
      "A", "B", "C", "D", "E", "F", "G", "H", "I", "J", "K", "L", "M", "N",
      "O", "P", "Q", "R", "S", "T", "U", "V", "W", "X", "Y", "Z"
    >>

LowerChars ==
    <<
      "a", "b", "c", "d", "e", "f", "g", "h", "i", "j", "k", "l", "m", "n",
      "o", "p", "q", "r", "s", "t", "u", "v", "w", "x", "y", "z"
    >>

\* str.lower() and str.upper() on one character
LowerCh(ch) ==
    IF \E i \in 1..Len(UpperChars) : UpperChars[i] = ch
    THEN LowerChars[CHOOSE i \in 1..Len(UpperChars) : UpperChars[i] = ch]
    ELSE ch

UpperCh(ch) ==
    IF \E i \in 1..Len(LowerChars) : LowerChars[i] = ch
    THEN UpperChars[CHOOSE i \in 1..Len(LowerChars) : LowerChars[i] = ch]
    ELSE ch

Lower(s) == [i \in 1..Len(s) |-> LowerCh(s[i])]

Upper(s) == [i \in 1..Len(s) |-> UpperCh(s[i])]

\* s.startswith(p)
StartsWith(s, p) == Len(p) <= Len(s) /\ SubSeq(s, 1, Len(p)) = p

\* s.endswith(p)
EndsWith(s, p) ==
    Len(p) <= Len(s) /\ SubSeq(s, Len(s) - Len(p) + 1, Len(s)) = p

\* s[n:]
Drop(s, n) == SubSeq(s, n + 1, Len(s))

\* s.replace(a, b) for single characters a and b
ReplaceCh(s, a, b) == [i \in 1..Len(s) |-> IF s[i] = a THEN b ELSE s[i]]

\* s.replace(a + a, b): leftmost, non-overlapping occurrences of the doubled
\* character a become the single character b
RECURSIVE ReplaceDouble(_, _, _)
ReplaceDouble(s, a, b) ==
    IF Len(s) = 0 THEN << >>
    ELSE IF Len(s) >= 2 /\ s[1] = a /\ s[2] = a
         THEN << b >> \o ReplaceDouble(Drop(s, 2), a, b)
         ELSE << s[1] >> \o ReplaceDouble(Drop(s, 1), a, b)

\* s.count(ch)
RECURSIVE CountCh(_, _)
CountCh(s, ch) ==
    IF Len(s) = 0 THEN 0
    ELSE (IF s[1] = ch THEN 1 ELSE 0) + CountCh(Drop(s, 1), ch)

HasCh(s, ch) == \E i \in 1..Len(s) : s[i] = ch

\* s.split(sep): the list of the parts between the separators ("" gives [""])
RECURSIVE SplitFrom(_, _, _)
SplitFrom(s, sep, cur) ==
    IF Len(s) = 0 THEN << cur >>
    ELSE IF s[1] = sep
         THEN << cur >> \o SplitFrom(Drop(s, 1), sep, << >>)
         ELSE SplitFrom(Drop(s, 1), sep, Append(cur, s[1]))

Split(s, sep) == SplitFrom(s, sep, << >>)

\* s.split(sep, 1): at most one split, at the first separator
Split1(s, sep) ==
    IF ~HasCh(s, sep) THEN << s >>
    ELSE LET i == CHOOSE j \in 1..Len(s) :
                      s[j] = sep /\ \A k \in 1..(j - 1) : s[k] # sep
         IN << SubSeq(s, 1, i - 1), Drop(s, i) >>

\* sep.join(parts)
RECURSIVE Join(_, _)
Join(parts, sep) ==
    IF Len(parts) = 0 THEN << >>
    ELSE IF Len(parts) = 1 THEN parts[1]
         ELSE parts[1] \o << sep >> \o Join(Drop(parts, 1), sep)

\* s.strip() for the space character
RECURSIVE LStrip(_)
LStrip(s) == IF Len(s) > 0 /\ s[1] = " " THEN LStrip(Drop(s, 1)) ELSE s

RECURSIVE RStrip(_)
RStrip(s) ==
    IF Len(s) > 0 /\ s[Len(s)] = " " THEN RStrip(SubSeq(s, 1, Len(s) - 1))
    ELSE s

Strip(s) == RStrip(LStrip(s))

\* s.rstrip("_")
RECURSIVE RStripUnderscore(_)
RStripUnderscore(s) ==
    IF Len(s) > 0 /\ s[Len(s)] = "_"
    THEN RStripUnderscore(SubSeq(s, 1, Len(s) - 1))
    ELSE s

\* a < b for Python strings
RECURSIVE StrLess(_, _)
StrLess(a, b) ==
    IF Len(b) = 0 THEN FALSE
    ELSE IF Len(a) = 0 THEN TRUE
    ELSE IF a[1] = b[1] THEN StrLess(Drop(a, 1), Drop(b, 1))
    ELSE Ord(a[1]) < Ord(b[1])

\* sorted(keys) for a sequence of distinct strings
RECURSIVE SortedStrs(_)
SortedStrs(S) ==
    IF S = {} THEN << >>
    ELSE LET m == CHOOSE x \in S : \A y \in S \ {x} : StrLess(x, y)
         IN << m >> \o SortedStrs(S \ {m})

\* ------------------------------------------------------------------------
\* Values
\* ------------------------------------------------------------------------

VNull == [t |-> "null"]

VBool(b) == [t |-> "bool", b |-> b]

VInt(i) == [t |-> "int", i |-> i]

\* a float, kept as the text it was read from
VFloat(r) == [t |-> "float", r |-> r]

VStr(s) == [t |-> "str", s |-> s]

VList(l) == [t |-> "list", l |-> l]

\* a plain dict and a Config; kv is the insertion-ordered list of items
Dict(kv) == [t |-> "map", c |-> FALSE, kv |-> kv]

Cfg(kv) == [t |-> "map", c |-> TRUE, kv |-> kv]

KV(k, v) == [k |-> k, v |-> v]

\* isinstance(v, dict): true for a Config as well
IsDict(v) == v.t = "map"

\* isinstance(v, Config)
IsConfig(v) == v.t = "map" /\ v.c

IsList(v) == v.t = "list"

IsStr(v) == v.t = "str"

\* key in d (dict.__contains__)
Has(d, k) == \E i \in 1..Len(d.kv) : d.kv[i].k = k

Idx(d, k) == CHOOSE i \in 1..Len(d.kv) : d.kv[i].k = k

\* d[k] for a key that is present
Item(d, k) == d.kv[Idx(d, k)].v

\* d[k] = v: an existing key keeps its position, a new key goes last
SetItem(d, k, v) ==
    [t |-> "map", c |-> d.c,
     kv |-> IF Has(d, k)
            THEN SubSeq(d.kv, 1, Idx(d, k) - 1) \o << KV(k, v) >>
                     \o SubSeq(d.kv, Idx(d, k) + 1, Len(d.kv))
            ELSE Append(d.kv, KV(k, v))]

\* del d[k]
DelItem(d, k) ==
    [t |-> "map", c |-> d.c,
     kv |-> SubSeq(d.kv, 1, Idx(d, k) - 1)
                \o SubSeq(d.kv, Idx(d, k) + 1, Len(d.kv))]

Keys(d) == {d.kv[i].k : i \in 1..Len(d.kv)}

\* ------------------------------------------------------------------------
\* Path access: get_by_dot, Config.get, Config.__contains__
\* ------------------------------------------------------------------------

Dot == "."

Underscore == "_"

Ok(v) == [ok |-> TRUE, v |-> v]

Raise(e) == [ok |-> FALSE, err |-> e]

\* the loop of get_by_dot from segment i on: a segment looked up in a node
\* that is no mapping raises TypeError, a segment absent from a mapping
\* raises KeyError
RECURSIVE GetWalk(_, _, _)
GetWalk(d, parts, i) ==
    IF i > Len(parts) THEN Ok(d)
    ELSE IF ~IsDict(d) THEN Raise("TypeError")
    ELSE IF ~Has(d, parts[i]) THEN Raise("KeyError")
    ELSE GetWalk(Item(d, parts[i]), parts, i + 1)

get_by_dot(cfg, key) == GetWalk(cfg, Split(key, Dot), 1)

\* a get that takes a stored None for a missing value
Config_get_NoneIsMissing(self, key, default) ==
    LET r == get_by_dot(self, key)
    IN IF r.ok /\ r.v # VNull THEN r.v ELSE default

\* Config.get(key, default)
Config_get(self, key, default) ==
    LET r == get_by_dot(self, key)
    IN IF r.ok THEN r.v ELSE default

\* d.get(k) with no default: dict.get on a plain dict, Config.get on a Config
DictGet(d, k) ==
    IF IsConfig(d) THEN Config_get(d, k, VNull)
    ELSE IF Has(d, k) THEN Item(d, k) ELSE VNull

\* Config.__contains__(key) for a string key
Config_contains(self, key) ==
    IF StartsWith(key, << Underscore >>) THEN Has(self, key)
    ELSE get_by_dot(self, key).ok

\* k in d: dict.__contains__ on a plain dict, Config.__contains__ on a Config
DictIn(d, k) == IF IsConfig(d) THEN Config_contains(d, k) ELSE Has(d, k)

\* ------------------------------------------------------------------------
\* deep_merge (values; the object graph is modelled further down)
\* ------------------------------------------------------------------------

RECURSIVE deep_merge(_, _)
\* the value deep_merge stores under a key of updates
MergedValue(value_base, value_updates) ==
    IF IsDict(value_base) /\ IsDict(value_updates)
    THEN deep_merge(value_base, value_updates)
    ELSE value_updates

\* the loop of deep_merge over updates.items(), from item i on
RECURSIVE MergeLoop(_, _, _)
MergeLoop(merged, updates, i) ==
    IF i > Len(updates.kv) THEN merged
    ELSE LET key == updates.kv[i].k
             value_updates == updates.kv[i].v
             value_base == DictGet(merged, key)
         IN MergeLoop(SetItem(merged, key,
                              MergedValue(value_base, value_updates)),
                      updates, i + 1)

deep_merge(base, updates) == MergeLoop(base, updates, 1)

\* ------------------------------------------------------------------------
\* Wrapping
\* ------------------------------------------------------------------------

\* Config._wrap_nested_items and the Config(value) it builds for a nested
\* plain dict: every dict below data, also inside lists, becomes a Config
RECURSIVE WrapValue(_)
WrapValue(v) ==
    IF IsDict(v)
    THEN Cfg([i \in 1..Len(v.kv) |-> KV(v.kv[i].k, WrapValue(v.kv[i].v))])
    ELSE IF IsList(v) THEN VList([i \in 1..Len(v.l) |-> WrapValue(v.l[i])])
    ELSE v

\* data after Config._wrap_nested_items(data): data keeps its own class
_wrap_nested_items(data) ==
    IF IsDict(data)
    THEN [t |-> "map", c |-> data.c,
          kv |-> [i \in 1..Len(data.kv) |->
                    KV(data.kv[i].k, WrapValue(data.kv[i].v))]]
    ELSE WrapValue(data)

\* does a plain dict lie below v, so that wrapping v calls Config(value)?
RECURSIVE HasPlainDict(_)
HasPlainDict(v) ==
    IF IsDict(v)
    THEN ~v.c \/ \E i \in 1..Len(v.kv) : HasPlainDict(v.kv[i].v)
    ELSE IF IsList(v) THEN \E i \in 1..Len(v.l) : HasPlainDict(v.l[i])
    ELSE FALSE

BuildsNestedConfig(data) ==
    IF IsDict(data) THEN \E i \in 1..Len(data.kv) : HasPlainDict(data.kv[i].v)
    ELSE HasPlainDict(data)

\* ------------------------------------------------------------------------
\* set_by_dot
\* ------------------------------------------------------------------------

\* set_by_dot from segment i on; d is the container reached so far.  The
\* result holds the container after the call, or the exception raised.
RECURSIVE SetWalk(_, _, _, _, _)
SetWalk(d, parts, i, value, create_missing) ==
    IF i = Len(parts)
    THEN IF ~create_missing /\ ~DictIn(d, parts[i]) THEN Raise("KeyError")
         ELSE IF IsConfig(d) /\ IsDict(value) /\ ~IsConfig(value)
              THEN Ok(SetItem(d, parts[i], WrapValue(value)))
              ELSE Ok(SetItem(d, parts[i], value))
    ELSE LET p == parts[i]
             current_val == DictGet(d, p)
         IN IF ~IsDict(current_val)
            THEN IF ~create_missing
                 THEN IF ~DictIn(d, p) THEN Raise("KeyError")
                      ELSE Raise("TypeError")
                 ELSE LET new_dict == IF IsConfig(d) THEN Cfg(<< >>)
                                      ELSE Dict(<< >>)
                          r == SetWalk(new_dict, parts, i + 1, value,
                                       create_missing)
                      IN Ok(SetItem(d, p, r.v))
            ELSE LET r == SetWalk(current_val, parts, i + 1, value,
                                  create_missing)
                 IN IF r.ok THEN Ok(SetItem(d, p, r.v)) ELSE r

\* a wrong set_by_dot, for comparison: missing segments are always created
set_by_dot_AlwaysCreates(cfg, key, value, create_missing) ==
    SetWalk(cfg, Split(key, Dot), 1, value, TRUE)

set_by_dot(cfg, key, value, create_missing) ==
    SetWalk(cfg, Split(key, Dot), 1, value, create_missing)

\* ------------------------------------------------------------------------
\* _parse_value
\* ------------------------------------------------------------------------

Quote == "\""

AllDigits(s) == Len(s) > 0 /\ \A i \in 1..Len(s) : s[i] \in Digits

\* digits, with single underscores allowed between digits, as int() reads
DigitGroups(s) ==
    /\ Len(s) > 0
    /\ s[1] \in Digits
    /\ s[Len(s)] \in Digits
    /\ \A i \in 1..Len(s) : s[i] \in Digits \cup {Underscore}
    /\ \A i \in 1..(Len(s) - 1) : ~(s[i] = Underscore /\ s[i + 1] = Underscore)

Unsigned(s) == IF Len(s) > 0 /\ s[1] \in {"+", "-"} THEN Drop(s, 1) ELSE s

\* does int(s) succeed for the stripped text s?
IsIntText(s) == DigitGroups(Unsigned(s))

RECURSIVE DigitsValue(_, _)
DigitsValue(s, acc) ==
    IF Len(s) = 0 THEN acc
    ELSE IF s[1] = Underscore THEN DigitsValue(Drop(s, 1), acc)
    ELSE DigitsValue(Drop(s, 1), 10 * acc + DigitVal(s[1]))

IntValue(s) ==
    IF Len(s) > 0 /\ s[1] = "-" THEN 0 - DigitsValue(Unsigned(s), 0)
    ELSE DigitsValue(Unsigned(s), 0)

\* does float(s) succeed for the stripped text s that int(s) rejected?  The
\* model reads a decimal point with digits on at least one side, digits with
\* an exponent, and the names nan, inf and infinity.
IsDecimalText(u) ==
    LET parts == Split(u, Dot)
    IN /\ Len(parts) = 2
       /\ Len(parts[1]) + Len(parts[2]) > 0
       /\ Len(parts[1]) = 0 \/ DigitGroups(parts[1])
       /\ Len(parts[2]) = 0 \/ DigitGroups(parts[2])

HasExponent(u) ==
    LET parts == Split(Lower(u), "e")
    IN /\ Len(parts) = 2
       /\ DigitGroups(parts[1]) \/ IsDecimalText(parts[1])
       /\ AllDigits(Unsigned(parts[2]))

FloatNames ==
    { << "n", "a", "n" >>, << "i", "n", "f" >>,
      << "i", "n", "f", "i", "n", "i", "t", "y" >> }

IsFloatText(s) ==
    LET u == Unsigned(s)
    IN IsDecimalText(u) \/ HasExponent(u) \/ Lower(u) \in FloatNames

\* the arrays inside arrays that json.loads decodes before the interpreter
\* gives up with RecursionError (about a thousand in CPython; the model
\* takes a small number)
RecursionLimit == 3

\* json.loads for the JSON texts of the model: a string without escapes, an
\* empty object, an array that is empty or holds one integer or one array;
\* anything else fails to decode
JsonInt(s) ==
    /\ AllDigits(Unsigned(s))
    /\ ~(Len(s) > 0 /\ s[1] = "+")
    /\ Len(Unsigned(s)) = 1 \/ Unsigned(s)[1] # "0"

\* the array text s, which is depth arrays deep in the text being decoded
RECURSIVE JsonArray(_, _)
JsonArray(s, depth) ==
    LET inner == Strip(SubSeq(s, 2, Len(s) - 1))
    IN IF depth > RecursionLimit THEN Raise("RecursionError")
       ELSE IF Len(s) < 2 \/ s[Len(s)] # "]" THEN Raise("JSONDecodeError")
       ELSE IF Len(inner) = 0 THEN Ok(VList(<< >>))
       ELSE IF JsonInt(inner) THEN Ok(VList(<< VInt(IntValue(inner)) >>))
       ELSE IF inner[1] = "["
            THEN LET item == JsonArray(inner, depth + 1)
                 IN IF item.ok THEN Ok(VList(<< item.v >>)) ELSE item
       ELSE Raise("JSONDecodeError")

JsonLoads(s) ==
    LET inner == SubSeq(s, 2, Len(s) - 1)
    IN IF s[1] = Quote
       THEN IF HasCh(inner, Quote) THEN Raise("JSONDecodeError")
            ELSE Ok(VStr(inner))
       ELSE IF s[1] = "[" THEN JsonArray(s, 1)
       ELSE IF Len(Strip(inner)) = 0 THEN Ok(Dict(<< >>))
            ELSE Raise("JSONDecodeError")

LooksLikeJson(s) ==
    /\ Len(s) > 1
    /\ \/ s[1] = "{" /\ s[Len(s)] = "}"
       \/ s[1] = "[" /\ s[Len(s)] = "]"
       \/ s[1] = Quote /\ s[Len(s)] = Quote

\* the value _parse_value returns, or the exception that leaves it: only
\* json.JSONDecodeError is caught around json.loads
_parse_value(raw_value) ==
    IF ~IsStr(raw_value) THEN Ok(raw_value)
    ELSE LET stripped_val == Strip(raw_value.s)
             lower_val == Lower(stripped_val)
         IN IF lower_val = << "t", "r", "u", "e" >> THEN Ok(VBool(TRUE))
            ELSE IF lower_val = << "f", "a", "l", "s", "e" >> THEN Ok(VBool(FALSE))
            ELSE IF lower_val = << "n", "u", "l", "l" >> THEN Ok(VNull)
            ELSE IF IsIntText(stripped_val) THEN Ok(VInt(IntValue(stripped_val)))
            ELSE IF IsFloatText(stripped_val) THEN Ok(VFloat(stripped_val))
            ELSE IF LooksLikeJson(stripped_val)
                 THEN LET result == JsonLoads(stripped_val)
                      IN IF result.ok THEN result
                         ELSE IF result.err = "JSONDecodeError" THEN Ok(raw_value)
                         ELSE result
            ELSE Ok(raw_value)

\* the value of a call that returns
ParsedValue(raw_value) == _parse_value(raw_value).v

\* ------------------------------------------------------------------------
\* Environment collection: Config._collect_env_vars
\* ------------------------------------------------------------------------

\* the names and name prefixes skipped when prefix is the empty string
system_prefixes_or_names ==
    <<
       << "X", "D", "G", "_" >>,
       << "Z", "S", "H", "_" >>,
       << "T", "E", "R", "M", "_" >>,
       << "C", "O", "L", "O", "R", "T", "E", "R", "M" >>,
       << "S", "S", "H", "_" >>,
       << "H", "O", "M", "E" >>,
       << "P", "W", "D" >>,
       << "U", "S", "E", "R" >>,
       << "S", "H", "E", "L", "L" >>,
       << "L", "A", "N", "G" >>,
       << "L", "C", "_" >>,
       << "D", "I", "S", "P", "L", "A", "Y" >>,
       << "P", "A", "T", "H" >>,
       << "_" >>,
       << "S", "H", "L", "V", "L" >>,
       << "O", "L", "D", "P", "W", "D" >>,
       << "E", "D", "I", "T", "O", "R" >>,
       << "P", "A", "G", "E", "R" >>,
       << "L", "E", "S", "S" >>,
       << "V", "I", "S", "U", "A", "L" >>,
       << "V", "I", "R", "T", "U", "A", "L", "_", "E", "N", "V" >>,
       << "W", "I", "N", "D", "O", "W", "I", "D" >>,
       << "H", "O", "S", "T", "T", "Y", "P", "E" >>,
       << "O", "S", "T", "Y", "P", "E" >>,
       << "M", "A", "C", "H", "T", "Y", "P", "E" >>,
       << "L", "S", "_" >>,
       << "P", "Y", "T", "H", "O", "N", "U", "T", "F", "8" >>,
       << "P", "Y", "T", "H", "O", "N", "P", "A", "T", "H" >>,
       << "P", "S", "1" >>,
       << "P", "S", "2" >>,
       << "W", "I", "N", "D", "O", "W", "P", "A", "T", "H" >>,
       << "Q", "T", "W", "E", "B", "E", "N", "G", "I", "N", "E", "_" >>,
       << "Q", "T", "_" >>,
       << "M", "O", "Z", "_" >>,
       << "G", "D", "K", "_" >>,
       << "G", "T", "K", "_" >>,
       << "B", "R", "O", "W", "S", "E", "R" >>,
       << "M", "A", "I", "L" >>,
       << "L", "O", "G", "N", "A", "M", "E" >>,
       << "U", "S", "E", "R", "N", "A", "M", "E" >>,
       << "S", "Y", "S", "T", "E", "M", "R", "O", "O", "T" >>,
       << "T", "E", "M", "P" >>,
       << "T", "M", "P" >>,
       << "P", "R", "O", "M", "P", "T" >>,
       << "H", "O", "S", "T", "N", "A", "M", "E" >>,
       << "D", "O", "M", "A", "I", "N", "N", "A", "M", "E" >>,
       << "M", "A", "N", "P", "A", "T", "H" >>
    >>

\* a prefix is None (VNull) or a string
prefix_match(prefix) ==
    IF IsStr(prefix) /\ Len(Strip(prefix.s)) > 0
    THEN RStripUnderscore(Strip(prefix.s)) \o << Underscore >>
    ELSE << >>

is_system_var(var_upper) ==
    \E i \in 1..Len(system_prefixes_or_names) :
        StartsWith(var_upper, Upper(system_prefixes_or_names[i]))

should_process(prefix, var) ==
    LET prefix_upper == Upper(prefix_match(prefix))
        var_upper == Upper(var)
    IN IF Len(prefix_upper) > 0 /\ StartsWith(var_upper, prefix_upper)
       THEN TRUE
       ELSE IF Len(prefix_upper) = 0 /\ IsStr(prefix)
                  /\ Len(Strip(prefix.s)) = 0
            THEN ~is_system_var(var_upper)
            ELSE FALSE

\* the part of the name after the prefix
key_part(prefix, var) == Drop(var, Len(prefix_match(prefix)))

\* a wrong conversion, for comparison: every underscore separates segments
dot_key_of_NoEscape(part) == ReplaceCh(Lower(part), Underscore, Dot)

\* lowercase; "__" becomes "_", every other "_" becomes "."
dot_key_of(part) ==
    ReplaceCh(ReplaceCh(ReplaceDouble(Lower(part), Underscore, "#"),
                        Underscore, Dot),
              "#", Underscore)

\* a name matched by the prefix alone is skipped, unless the prefix is ""
skipped(prefix, var) ==
    Len(key_part(prefix, var)) = 0
        /\ ~(IsStr(prefix) /\ Len(Strip(prefix.s)) = 0)

\* the loop over os.environ.items(), from item i on, for values that
\* _parse_value returns a value for
RECURSIVE CollectLoop(_, _, _, _)
CollectLoop(env_data, prefix, env, i) ==
    IF i > Len(env) THEN env_data
    ELSE IF should_process(prefix, env[i].name) /\ ~skipped(prefix, env[i].name)
         THEN CollectLoop(
                  set_by_dot(env_data,
                             dot_key_of(key_part(prefix, env[i].name)),
                             ParsedValue(VStr(env[i].value)), TRUE).v,
                  prefix, env, i + 1)
         ELSE CollectLoop(env_data, prefix, env, i + 1)

_collect_env_vars(prefix, env) == CollectLoop(Dict(<< >>), prefix, env, 1)

\* ------------------------------------------------------------------------
\* Flattening
\* ------------------------------------------------------------------------

JoinKey(prefix, k) ==
    IF Len(prefix) > 0 THEN prefix \o << Dot >> \o k ELSE k

\* _get_flat_items: the (dot key, value) pairs of the non-dict values
RECURSIVE _get_flat_items(_, _), FlatItemsFrom(_, _, _)
FlatItemsFrom(d, prefix, i) ==
    IF i > Len(d.kv) THEN << >>
    ELSE LET new_key == JoinKey(prefix, d.kv[i].k)
             v == d.kv[i].v
         IN (IF IsDict(v) THEN _get_flat_items(v, new_key)
             ELSE << KV(new_key, v) >>)
            \o FlatItemsFrom(d, prefix, i + 1)

_get_flat_items(d, prefix) == FlatItemsFrom(d, prefix, 1)

\* Config._flatten_keys: every dot key of d, those of mappings included
RECURSIVE _flatten_keys(_, _), FlattenKeysFrom(_, _, _)
FlattenKeysFrom(d, prefix, i) ==
    IF i > Len(d.kv) THEN << >>
    ELSE LET new_key == JoinKey(prefix, d.kv[i].k)
             v == d.kv[i].v
         IN << new_key >>
            \o (IF IsDict(v) THEN _flatten_keys(v, new_key) ELSE << >>)
            \o FlattenKeysFrom(d, prefix, i + 1)

_flatten_keys(d, prefix) == FlattenKeysFrom(d, prefix, 1)

InSeq(x, s) == \E i \in 1..Len(s) : s[i] = x

\* ------------------------------------------------------------------------
\* Environment remapping: Config._remap_and_flatten_env_data
\* ------------------------------------------------------------------------

\* sorted(flat_env_items, key=number of dots, reverse=True): a stable sort,
\* so items with the same number of dots keep their order
RECURSIVE ByDotsFrom(_, _)
ByDotsFrom(items, n) ==
    LET HasN(it) == CountCh(it.k, Dot) = n
    IN IF n < 0 THEN << >>
       ELSE SelectSeq(items, HasN) \o ByDotsFrom(items, n - 1)

RECURSIVE MaxDots(_)
MaxDots(items) ==
    IF Len(items) = 0 THEN 0
    ELSE LET m == MaxDots(Drop(items, 1))
             n == CountCh(items[1].k, Dot)
         IN IF n > m THEN n ELSE m

\* a wrong order, for comparison: the items as they are listed
SortedDeepestFirst_AsListed(items) == items

SortedDeepestFirst(items) == ByDotsFrom(items, MaxDots(items))

\* heuristic 0: the key joined by underscores and split again at its first
\* underscore
HeuristicCandidate(dot_key) ==
    LET reconstructed_flat == ReplaceCh(dot_key, Dot, Underscore)
        rr == Split1(reconstructed_flat, Underscore)
    IN rr[1] \o << Dot >> \o rr[2]

\* a wrong attempt 2, for comparison: any known key serves as the prefix
RECURSIVE LongestDictPrefix_AnyKnown(_, _, _, _)
LongestDictPrefix_AnyKnown(parts, i, valid_base_keys, base_config_check) ==
    IF i < 1 THEN << >>
    ELSE IF InSeq(Join(SubSeq(parts, 1, i), Dot), valid_base_keys)
         THEN Join(SubSeq(parts, 1, i), Dot) \o << Dot >>
                  \o Join(Drop(parts, i), Underscore)
         ELSE LongestDictPrefix_AnyKnown(parts, i - 1, valid_base_keys,
                                         base_config_check)

\* attempt 2: the longest proper dot-prefix, from i segments down, that is a
\* known key holding a dict; << >> when there is none
RECURSIVE LongestDictPrefix(_, _, _, _)
LongestDictPrefix(parts, i, valid_base_keys, base_config_check) ==
    IF i < 1 THEN << >>
    ELSE LET potential_root_key == Join(SubSeq(parts, 1, i), Dot)
             rest_parts == Drop(parts, i)
             target_in_base == get_by_dot(base_config_check, potential_root_key)
         IN IF InSeq(potential_root_key, valid_base_keys)
                 /\ target_in_base.ok /\ IsDict(target_in_base.v)
            THEN potential_root_key \o << Dot >> \o Join(rest_parts, Underscore)
            ELSE LongestDictPrefix(parts, i - 1, valid_base_keys,
                                   base_config_check)

\* the fallback when no remapping was found
FallbackKey(dot_key, prefix, load_dotenv_file) ==
    IF prefix = VStr(<< >>) THEN dot_key
    ELSE IF load_dotenv_file THEN dot_key
    ELSE ReplaceCh(dot_key, Dot, Underscore)

\* the key under which one flat item is stored
RemappedKey(dot_key, valid_base_keys, base_config_check, prefix, load_dotenv_file) ==
    LET parts == Split(dot_key, Dot)
        reconstructed_flat == ReplaceCh(dot_key, Dot, Underscore)
        attempt1 == IF InSeq(reconstructed_flat, valid_base_keys)
                    THEN reconstructed_flat ELSE << >>
        remapped_key ==
            IF Len(attempt1) > 0 THEN attempt1
            ELSE LongestDictPrefix(parts, Len(parts) - 1, valid_base_keys,
                                   base_config_check)
    IN IF HasCh(reconstructed_flat, Underscore)
            /\ InSeq(HeuristicCandidate(dot_key), valid_base_keys)
       THEN HeuristicCandidate(dot_key)
       ELSE IF Len(remapped_key) > 0 THEN remapped_key
       ELSE FallbackKey(dot_key, prefix, load_dotenv_file)

\* the loop over the sorted items: a key that is already set is not set again
RECURSIVE RemapLoop(_, _, _, _, _, _, _)
RemapLoop(flat, items, i, valid_base_keys, base_config_check, prefix, load_dotenv_file) ==
    IF i > Len(items) THEN flat
    ELSE LET final_key == RemappedKey(items[i].k, valid_base_keys,
                                      base_config_check, prefix,
                                      load_dotenv_file)
         IN RemapLoop(IF Has(flat, final_key) THEN flat
                      ELSE SetItem(flat, final_key, items[i].v),
                      items, i + 1, valid_base_keys, base_config_check,
                      prefix, load_dotenv_file)

_remap_and_flatten_env_data(nested_env_data, defaults_data, file_data, prefix, load_dotenv_file) ==
    LET base_config_check == deep_merge(defaults_data, file_data)
        valid_base_keys == _flatten_keys(base_config_check, << >>)
        flat_env_items == _get_flat_items(nested_env_data, << >>)
    IN RemapLoop(Dict(<< >>), SortedDeepestFirst(flat_env_items), 1,
                 valid_base_keys, base_config_check, prefix, load_dotenv_file)

\* ------------------------------------------------------------------------
\* Config._structure_overrides
\* ------------------------------------------------------------------------

\* the loop over the sorted keys, from key i on
RECURSIVE StructureLoop(_, _, _, _)
StructureLoop(structured_overrides, overrides_dict, sorted_keys, i) ==
    IF i > Len(sorted_keys) THEN structured_overrides
    ELSE LET key == sorted_keys[i]
             parsed_val == _parse_value(Item(overrides_dict, key))
             set == IF parsed_val.ok
                    THEN set_by_dot(structured_overrides, key, parsed_val.v, TRUE)
                    ELSE parsed_val
         IN StructureLoop(
                IF set.ok THEN set.v ELSE structured_overrides,
                overrides_dict, sorted_keys, i + 1)

\* a wrong variant, for comparison: the raw values are stored unparsed
RECURSIVE StructureLoop_Raw(_, _, _, _)
StructureLoop_Raw(structured_overrides, overrides_dict, sorted_keys, i) ==
    IF i > Len(sorted_keys) THEN structured_overrides
    ELSE StructureLoop_Raw(
             set_by_dot(structured_overrides, sorted_keys[i],
                        Item(overrides_dict, sorted_keys[i]), TRUE).v,
             overrides_dict, sorted_keys, i + 1)

_structure_overrides_Raw(overrides_dict) ==
    IF ~IsDict(overrides_dict) \/ Len(overrides_dict.kv) = 0 THEN Dict(<< >>)
    ELSE StructureLoop_Raw(Dict(<< >>), overrides_dict,
                           SortedStrs(Keys(overrides_dict)), 1)

\* overrides_dict is None (VNull) or a dict from dot keys to raw values
_structure_overrides(overrides_dict) ==
    IF ~IsDict(overrides_dict) \/ Len(overrides_dict.kv) = 0 THEN Dict(<< >>)
    ELSE StructureLoop(Dict(<< >>), overrides_dict,
                       SortedStrs(Keys(overrides_dict)), 1)

\* ------------------------------------------------------------------------
\* Files: Config._load_config_file
\* ------------------------------------------------------------------------

\* A file on disk: whether it exists, its extension, and the mapping its
\* parser returns (the top-level items in document order).
File(exists, ext, content) ==
    [t |-> "file", exists |-> exists, ext |-> ext, content |-> content]

\* the keys of one section that are promoted, in some order; the effect of
\* the promotions of one section does not depend on the order
RECURSIVE PromoteKeys(_, _, _, _)
PromoteKeys(st, section_key, todo, root_default_keys) ==
    IF todo = {} THEN st
    ELSE LET key_to_promote == CHOOSE k \in todo : TRUE
             section_data == Item(st.file_content, section_key)
         IN IF ~Has(st.file_content, key_to_promote)
                 \/ key_to_promote \in st.promoted_keys
            THEN PromoteKeys(
                     [file_content |->
                          SetItem(SetItem(st.file_content, section_key,
                                          DelItem(section_data, key_to_promote)),
                                  key_to_promote,
                                  Item(section_data, key_to_promote)),
                      promoted_keys |-> st.promoted_keys \cup {key_to_promote}],
                     section_key, todo \ {key_to_promote}, root_default_keys)
            ELSE PromoteKeys(st, section_key, todo \ {key_to_promote},
                             root_default_keys)

\* the loop over list(file_content.items()), from section i on
RECURSIVE PromoteLoop(_, _, _, _)
PromoteLoop(st, sections, i, root_default_keys) ==
    IF i > Len(sections) THEN st.file_content
    ELSE LET section_key == sections[i]
             section_data == Item(st.file_content, section_key)
         IN IF IsDict(section_data)
            THEN LET st2 == PromoteKeys(st, section_key,
                                        root_default_keys \cap Keys(section_data),
                                        root_default_keys)
                     emptied == Len(Item(st2.file_content, section_key).kv) = 0
                 IN PromoteLoop(
                        IF emptied
                        THEN [file_content |-> DelItem(st2.file_content, section_key),
                              promoted_keys |-> st2.promoted_keys]
                        ELSE st2,
                        sections, i + 1, root_default_keys)
            ELSE PromoteLoop(st, sections, i + 1, root_default_keys)

\* TOML key promotion
PromoteToml(file_content, defaults_data) ==
    IF Len(file_content.kv) > 0 /\ Len(defaults_data.kv) > 0
    THEN PromoteLoop([file_content |-> file_content, promoted_keys |-> {}],
                     [i \in 1..Len(file_content.kv) |-> file_content.kv[i].k],
                     1, Keys(defaults_data))
    ELSE file_content

\* a wrong loader, for comparison: a primary file that is not there counts
\* as an empty one
_load_config_file_MissingIsEmpty(file_path, defaults_data) ==
    IF ~(file_path.t = "file") THEN Ok(Dict(<< >>))
    ELSE IF ~file_path.exists THEN Ok(Dict(<< >>))
    ELSE IF file_path.ext = "toml"
         THEN Ok(PromoteToml(file_path.content, defaults_data))
    ELSE IF file_path.ext = "json" THEN Ok(file_path.content)
    ELSE Raise("RuntimeError")

\* file_path is None (VNull) or a file
_load_config_file(file_path, defaults_data) ==
    IF ~(file_path.t = "file") THEN Ok(Dict(<< >>))
    ELSE IF ~file_path.exists THEN Raise("FileNotFoundError")
    ELSE IF file_path.ext = "toml"
         THEN Ok(PromoteToml(file_path.content, defaults_data))
    ELSE IF file_path.ext = "json" THEN Ok(file_path.content)
    ELSE Raise("RuntimeError")

\* ------------------------------------------------------------------------
\* Dotenv: Config._load_dotenv_file_action
\* ------------------------------------------------------------------------

EnvVar(name, value) == [name |-> name, value |-> value]

EnvHas(env, name) == \E i \in 1..Len(env) : env[i].name = name

\* load_dotenv(override=False): a variable of the file is set unless the
\* process environment already holds one of that name
RECURSIVE DotenvLoop(_, _, _)
DotenvLoop(env, vars, i) ==
    IF i > Len(vars) THEN env
    ELSE DotenvLoop(IF EnvHas(env, vars[i].name) THEN env
                    ELSE Append(env, vars[i]),
                    vars, i + 1)

\* a wrong loader, for comparison: the file wins over the process environment
\* (load_dotenv(override=True))
_load_dotenv_file_action_Override(env, world) ==
    IF world.installed /\ world.found
    THEN DotenvLoop(SelectSeq(env, LAMBDA e :
                                  \A j \in 1..Len(world.vars) :
                                      world.vars[j].name # e.name),
                    world.vars, 1)
    ELSE env

\* the process environment after _load_dotenv_file_action
_load_dotenv_file_action(env, world) ==
    IF world.installed /\ world.found THEN DotenvLoop(env, world.vars, 1)
    ELSE env

\* ------------------------------------------------------------------------
\* Layers that the loader of src/ does not take: app_defaults, file_paths,
\* app_prefixes
\* ------------------------------------------------------------------------

\* a wrong namespacing, for comparison: the data always goes under the tag
_apply_namespace_AlwaysNest(data, tag) == Dict(<< KV(tag, data) >>)

\* _apply_namespace(data, tag)
_apply_namespace(data, tag) ==
    IF Has(data, tag) /\ IsDict(Item(data, tag))
    THEN Dict(<< KV(tag, Item(data, tag)) >>)
    ELSE IF Has(data, << "t", "o", "o", "l" >>)
              /\ IsDict(Item(data, << "t", "o", "o", "l" >>))
              /\ Has(Item(data, << "t", "o", "o", "l" >>), tag)
              /\ IsDict(Item(Item(data, << "t", "o", "o", "l" >>), tag))
         THEN Dict(<< KV(tag, Item(Item(data, << "t", "o", "o", "l" >>), tag)) >>)
         ELSE Dict(<< KV(tag, data) >>)

\* the data one entry of file_paths brings to the merge: a missing file is
\* skipped, a namespaced file is put under its namespace
ExtraFileData(entry) ==
    IF ~entry.file.exists THEN Dict(<< >>)
    ELSE IF IsStr(entry.ns) THEN _apply_namespace(entry.file.content, entry.ns.s)
    ELSE entry.file.content

ExtraFilesData(file_paths) ==
    [i \in 1..Len(file_paths) |-> ExtraFileData(file_paths[i])]

\* app_defaults lie below defaults
WithAppDefaults(app_defaults, defaults_data) ==
    IF IsDict(app_defaults) /\ Len(app_defaults.kv) > 0
    THEN deep_merge(app_defaults, defaults_data)
    ELSE defaults_data

\* the overlay of one application: its variables are collected with its own
\* prefix, remapped against the application's subtree and put under its
\* namespace
AppOverlay(merged, ns, app_prefix, env, load_dotenv_file) ==
    LET nested == _collect_env_vars(app_prefix, env)
        known == IF Has(merged, ns) /\ IsDict(Item(merged, ns))
                 THEN Item(merged, ns) ELSE Dict(<< >>)
    IN IF Len(nested.kv) = 0 THEN Dict(<< >>)
       ELSE Dict(<< KV(ns, _structure_overrides(
                               _remap_and_flatten_env_data(
                                   nested, known, Dict(<< >>), app_prefix,
                                   load_dotenv_file))) >>)

\* the overlays of all applications, each computed against the tree that the
\* overlays before it have produced
RECURSIVE AppOverlays(_, _, _, _, _)
AppOverlays(merged, app_prefixes, i, env, load_dotenv_file) ==
    IF ~IsDict(app_prefixes) \/ i > Len(app_prefixes.kv) THEN << >>
    ELSE LET overlay == AppOverlay(merged, app_prefixes.kv[i].k,
                                   app_prefixes.kv[i].v, env, load_dotenv_file)
         IN << overlay >> \o AppOverlays(deep_merge(merged, overlay),
                                         app_prefixes, i + 1, env,
                                         load_dotenv_file)

\* merged with each layer of a list in turn
RECURSIVE MergeLayers(_, _, _)
MergeLayers(merged, layers, i) ==
    IF i > Len(layers) THEN merged
    ELSE MergeLayers(deep_merge(merged, layers[i]), layers, i + 1)

\* ------------------------------------------------------------------------
\* Config.__init__
\* ------------------------------------------------------------------------

VARIABLES
    args,               \* the arguments of Config(...)
    world,              \* the dotenv package and the .env file on disk
    environ,            \* os.environ, in iteration order
    pc,                 \* the step of __init__ that runs next
    defaults_data,      \* locals of __init__
    args_kwargs_data,
    file_data,
    final_merged_data,
    structured_env_data,
    app_env_data,       \* the overlays of the applications, in order
    structured_overrides_data,
    self,               \* the Config under construction, then constructed
    exc,                \* the exception __init__ raised
    ret,                \* the last accessor call and what it returned
    heap,               \* the objects of a deep_merge call: cell a is heap[a]
    m_base,             \* the arguments and the result of the call
    m_updates,
    m_result,
    mpc,                \* "call" before the call, then "merged", "mutated"
    base0,              \* the arguments as values before the call
    updates0,
    result0,            \* the result as a value when the call returned
    touched,            \* the cells written after the call, and through what
    ncalls,             \* the calls made on the finished Config so far
    _entries,           \* ProvenanceStore._entries: the current entry of a key
    _history,           \* ProvenanceStore._history: the entries it replaced
    recorded            \* the record calls made so far, in order

cvars ==
    << args, world, environ, pc, defaults_data, args_kwargs_data, file_data,
       final_merged_data, structured_env_data, app_env_data,
       structured_overrides_data, self, exc, ret >>

hvars ==
    << heap, m_base, m_updates, m_result, mpc, base0, updates0, result0,
       touched >>

tvars == << ncalls, _entries, _history, recorded >>

vars == << cvars, hvars, tvars >>

NoExc == [type |-> "none"]

NoRet == [op |-> "none"]

EmptyDict == Dict(<< >>)

\* defaults or {}
OrEmpty(d) == IF IsDict(d) THEN d ELSE EmptyDict

\* a wrong Step 2, for comparison: the file below the initial data
MergeBase_FileFirst(base, kwargs_data, fdata) ==
    LET with_file == IF Len(fdata.kv) > 0 THEN deep_merge(base, fdata) ELSE base
    IN IF Len(kwargs_data.kv) > 0 THEN deep_merge(with_file, kwargs_data)
       ELSE with_file

\* Step 2: defaults, then initial data, then the file
MergeBase(base, kwargs_data, fdata) ==
    LET with_kwargs == IF Len(kwargs_data.kv) > 0
                       THEN deep_merge(base, kwargs_data) ELSE base
    IN IF Len(fdata.kv) > 0 THEN deep_merge(with_kwargs, fdata)
       ELSE with_kwargs

\* Step 3: the structured environment overlay ({} when nothing is collected)
EnvOverlay(prefix, env, ddata, fdata, load_dotenv_file) ==
    LET nested_env_data == _collect_env_vars(prefix, env)
    IN IF Len(nested_env_data.kv) = 0 THEN EmptyDict
       ELSE _structure_overrides(
                _remap_and_flatten_env_data(nested_env_data, ddata, fdata,
                                            prefix, load_dotenv_file))

\* a wrong variant, for comparison: validation stops at the first miss
MissingKeys_FirstOnly(cfg, keys) ==
    LET Fails(k) == ~get_by_dot(cfg, k).ok
        all == SelectSeq(keys, Fails)
    IN IF Len(all) > 0 THEN << all[1] >> ELSE << >>

\* _validate_mandatory: the keys that get_by_dot cannot resolve, in order
MissingKeys(cfg, keys) ==
    LET Fails(k) == ~get_by_dot(cfg, k).ok
    IN SelectSeq(keys, Fails)

\* no deep_merge call is followed on its own
NoMergeCall ==
    /\ heap = << >>
    /\ m_base = VNull
    /\ m_updates = VNull
    /\ m_result = VNull
    /\ mpc = "none"
    /\ base0 = VNull
    /\ updates0 = VNull
    /\ result0 = VNull
    /\ touched = { }

\* no call was made yet and the ledger is empty
NoCalls ==
    /\ ncalls = 0
    /\ _entries = EmptyDict
    /\ _history = EmptyDict
    /\ recorded = << >>

InitLocals ==
    /\ pc = "step0"
    /\ defaults_data = EmptyDict
    /\ args_kwargs_data = EmptyDict
    /\ file_data = EmptyDict
    /\ final_merged_data = EmptyDict
    /\ structured_env_data = EmptyDict
    /\ app_env_data = << >>
    /\ structured_overrides_data = EmptyDict
    /\ self = Cfg(<< >>)
    /\ exc = NoExc
    /\ ret = NoRet
    /\ NoMergeCall
    /\ NoCalls

Step0_LoadDotenv ==
    /\ pc = "step0"
    /\ environ' = IF args.load_dotenv_file
                  THEN _load_dotenv_file_action(environ, world)
                  ELSE environ
    /\ pc' = "step1"
    /\ UNCHANGED << hvars, tvars >>
    /\ UNCHANGED << args, app_env_data, world, defaults_data, args_kwargs_data, file_data,
                    final_merged_data, structured_env_data,
                    structured_overrides_data, self, exc, ret >>

Step1_CollectBase ==
    /\ pc = "step1"
    /\ LET loaded == _load_config_file(args.file_path, OrEmpty(args.defaults))
       IN /\ defaults_data' = OrEmpty(args.defaults)
          /\ args_kwargs_data' = IF Len(args.kwargs.kv) > 0
                                 THEN deep_merge(EmptyDict, args.kwargs)
                                 ELSE EmptyDict
          /\ file_data' = IF loaded.ok THEN loaded.v ELSE file_data
          /\ exc' = IF loaded.ok THEN exc ELSE [type |-> loaded.err]
          /\ pc' = IF loaded.ok THEN "step2" ELSE "raised"
    /\ UNCHANGED << hvars, tvars >>
    /\ UNCHANGED << args, app_env_data, world, environ, final_merged_data,
                    structured_env_data, structured_overrides_data, self, ret >>

Step2_MergeBase ==
    /\ pc = "step2"
    /\ final_merged_data' =
           MergeBase(WithAppDefaults(args.app_defaults, defaults_data),
                     args_kwargs_data, file_data)
    /\ pc' = "step2b"
    /\ UNCHANGED << hvars, tvars >>
    /\ UNCHANGED << args, app_env_data, world, environ, defaults_data, args_kwargs_data,
                    file_data, structured_env_data, structured_overrides_data,
                    self, exc, ret >>

Step2b_MergeExtraFiles ==
    /\ pc = "step2b"
    /\ final_merged_data' =
           MergeLayers(final_merged_data, ExtraFilesData(args.file_paths), 1)
    /\ pc' = "step3"
    /\ UNCHANGED << hvars, tvars >>
    /\ UNCHANGED << args, app_env_data, world, environ, defaults_data, args_kwargs_data,
                    file_data, structured_env_data, structured_overrides_data,
                    self, exc, ret >>

Step3_MergeEnv ==
    /\ pc = "step3"
    /\ structured_env_data' =
           EnvOverlay(args.prefix, environ, defaults_data, file_data,
                      args.load_dotenv_file)
    /\ final_merged_data' =
           IF Len(_collect_env_vars(args.prefix, environ).kv) > 0
           THEN deep_merge(final_merged_data, structured_env_data')
           ELSE final_merged_data
    /\ pc' = "step3b"
    /\ UNCHANGED << hvars, tvars >>
    /\ UNCHANGED << args, app_env_data, world, environ, defaults_data, args_kwargs_data,
                    file_data, structured_overrides_data, self, exc, ret >>

Step3b_MergeAppEnv ==
    /\ pc = "step3b"
    /\ app_env_data' =
           AppOverlays(final_merged_data, args.app_prefixes, 1, environ,
                       args.load_dotenv_file)
    /\ final_merged_data' = MergeLayers(final_merged_data, app_env_data', 1)
    /\ pc' = "step4"
    /\ UNCHANGED << hvars, tvars >>
    /\ UNCHANGED << args, world, environ, defaults_data, args_kwargs_data,
                    file_data, structured_env_data, structured_overrides_data,
                    self, exc, ret >>

Step4_MergeOverrides ==
    /\ pc = "step4"
    /\ structured_overrides_data' = _structure_overrides(args.overrides_dict)
    /\ final_merged_data' =
           IF Len(structured_overrides_data'.kv) > 0
           THEN deep_merge(final_merged_data, structured_overrides_data')
           ELSE final_merged_data
    /\ pc' = "step5"
    /\ UNCHANGED << hvars, tvars >>
    /\ UNCHANGED << args, app_env_data, world, environ, defaults_data, args_kwargs_data,
                    file_data, structured_env_data, self, exc, ret >>

\* super().__init__ and _wrap_nested_items; each nested plain dict is wrapped
\* by Config(value), whose own __init__ runs with load_dotenv_file=True
Step5_Wrap ==
    /\ pc = "step5"
    /\ self' = _wrap_nested_items(Cfg(final_merged_data.kv))
    /\ environ' = IF BuildsNestedConfig(Cfg(final_merged_data.kv))
                  THEN _load_dotenv_file_action(environ, world)
                  ELSE environ
    /\ pc' = "step6"
    /\ UNCHANGED << hvars, tvars >>
    /\ UNCHANGED << args, app_env_data, world, defaults_data, args_kwargs_data, file_data,
                    final_merged_data, structured_env_data,
                    structured_overrides_data, exc, ret >>

Step6_Validate ==
    /\ pc = "step6"
    /\ LET missing == IF args.mandatory.t = "list"
                      THEN MissingKeys(self, args.mandatory.l) ELSE << >>
       IN /\ exc' = IF Len(missing) > 0
                    THEN [type |-> "MissingMandatoryConfig",
                          missing_keys |-> missing]
                    ELSE exc
          /\ pc' = IF Len(missing) > 0 THEN "raised" ELSE "done"
    /\ UNCHANGED << hvars, tvars >>
    /\ UNCHANGED << args, app_env_data, world, environ, defaults_data, args_kwargs_data,
                    file_data, final_merged_data, structured_env_data,
                    structured_overrides_data, self, ret >>

Construct ==
    \/ Step0_LoadDotenv
    \/ Step1_CollectBase
    \/ Step2_MergeBase
    \/ Step2b_MergeExtraFiles
    \/ Step3_MergeEnv
    \/ Step3b_MergeAppEnv
    \/ Step4_MergeOverrides
    \/ Step5_Wrap
    \/ Step6_Validate

\* ------------------------------------------------------------------------
\* Accessor calls on the constructed Config
\* ------------------------------------------------------------------------

CallGetByDot(key) ==
    /\ pc = "done"
    /\ ret' = [op |-> "get_by_dot", key |-> key, out |-> get_by_dot(self, key)]
    /\ UNCHANGED << hvars, tvars >>
    /\ UNCHANGED << args, app_env_data, world, environ, pc, defaults_data, args_kwargs_data,
                    file_data, final_merged_data, structured_env_data,
                    structured_overrides_data, self, exc >>

CallGet(key, default) ==
    /\ pc = "done"
    /\ ret' = [op |-> "get", key |-> key, default |-> default,
               out |-> Config_get(self, key, default)]
    /\ UNCHANGED << hvars, tvars >>
    /\ UNCHANGED << args, app_env_data, world, environ, pc, defaults_data, args_kwargs_data,
                    file_data, final_merged_data, structured_env_data,
                    structured_overrides_data, self, exc >>

CallContains(key) ==
    /\ pc = "done"
    /\ ret' = [op |-> "contains", key |-> key, out |-> Config_contains(self, key)]
    /\ UNCHANGED << hvars, tvars >>
    /\ UNCHANGED << args, app_env_data, world, environ, pc, defaults_data, args_kwargs_data,
                    file_data, final_merged_data, structured_env_data,
                    structured_overrides_data, self, exc >>

\* ------------------------------------------------------------------------
\* Names used by the inputs
\* ------------------------------------------------------------------------

sA == << "a" >>
sB == << "b" >>
sN == << "n" >>
sP == << "P" >>
sQ == << "Q" >>
pNA == << "n", ".", "a" >>
pNB == << "n", ".", "b" >>
pNAB == << "n", ".", "a", ".", "b" >>

NoDotenv == [installed |-> FALSE, found |-> FALSE, vars |-> << >>]

\* ------------------------------------------------------------------------
\* Precedence: every layer writes its own number, so that the final value of
\* a path tells the layer it came from
\* ------------------------------------------------------------------------

MaxActiveLayers == 3
MaxExtraFiles == 1
MaxEnvVars == 1
MaxOverrides == 1

\* all sequences without repetition of at most n elements of S
RECURSIVE Arrangements(_, _)
Arrangements(S, n) ==
    IF n = 0 THEN { << >> }
    ELSE LET shorter == Arrangements(S, n - 1)
         IN shorter \cup { Append(q, x) : q \in { r \in shorter : Len(r) = n - 1 },
                                          x \in S }

NoRepeat(q) == \A i, j \in 1..Len(q) : i # j => q[i] # q[j]

Leaf(i) == VInt(i)

ShapeNA(v) == Dict(<< KV(sN, Dict(<< KV(sA, v) >>)) >>)
ShapeNAB(v) == Dict(<< KV(sN, Dict(<< KV(sA, v), KV(sB, v) >>)) >>)
ShapeN(v) == Dict(<< KV(sN, v) >>)
ShapeNAdeep(v) == Dict(<< KV(sN, Dict(<< KV(sA, Dict(<< KV(sB, v) >>)) >>)) >>)
ShapeRootA(v) == Dict(<< KV(sA, v), KV(sN, Dict(<< KV(sA, v) >>)) >>)

PrecDefaults ==
    { VNull, ShapeNA(Leaf(1)), ShapeNAB(Leaf(1)), ShapeN(Leaf(1)),
      ShapeRootA(Leaf(1)) }

PrecAppDefaults == { VNull, ShapeNA(Leaf(0)), ShapeNAdeep(Leaf(0)) }

PrecKwargs == { EmptyDict, ShapeNA(Leaf(2)), ShapeN(Leaf(2)) }

PrecFiles ==
    { VNull,
      File(TRUE, "json", ShapeNA(Leaf(3))),
      File(TRUE, "toml", ShapeNA(Leaf(3))),
      File(TRUE, "json", ShapeNAdeep(Leaf(3))),
      File(TRUE, "toml", ShapeNAB(Leaf(3))) }

PrecExtraFiles ==
    { [file |-> File(TRUE, "json", ShapeNA(Leaf(40))), ns |-> VNull],
      [file |-> File(TRUE, "json", Dict(<< KV(sA, Leaf(41)) >>)), ns |-> VStr(sN)] }

PrecEnvVars ==
    { EnvVar(<< "P", "_", "N", "_", "A" >>, << "5" >>),
      EnvVar(<< "P", "_", "N" >>, << "5" >>),
      EnvVar(<< "Q", "_", "A" >>, << "6" >>) }

PrecOverrideKeys == { pNA, sN, pNAB }

\* overrides_dict with the keys of K, each with the raw value "7"
OverridesOf(order) ==
    IF Len(order) = 0 THEN VNull
    ELSE Dict([i \in 1..Len(order) |-> KV(order[i], VStr(<< "7" >>))])

PrecOverrides ==
    { OverridesOf(q) : q \in { r \in Arrangements(PrecOverrideKeys, MaxOverrides) :
                                 \A i, j \in 1..Len(r) : i < j => StrLess(r[i], r[j]) } }

ExtraFileLists ==
    UNION { [1..n -> PrecExtraFiles] : n \in 0..MaxExtraFiles }

ActiveLayers(a, env) ==
    (IF a.defaults = VNull THEN 0 ELSE 1)
    + (IF a.app_defaults = VNull THEN 0 ELSE 1)
    + (IF a.kwargs = EmptyDict THEN 0 ELSE 1)
    + (IF a.file_path = VNull THEN 0 ELSE 1)
    + (IF Len(a.file_paths) = 0 THEN 0 ELSE 1)
    + (IF Len(env) = 0 THEN 0 ELSE 1)
    + (IF a.overrides_dict = VNull THEN 0 ELSE 1)

PrecArgs ==
    [defaults : PrecDefaults, app_defaults : PrecAppDefaults,
     kwargs : PrecKwargs, file_path : PrecFiles, file_paths : ExtraFileLists,
     prefix : { VStr(sP) }, app_prefixes : { Dict(<< KV(sN, VStr(sQ)) >>) },
     overrides_dict : PrecOverrides, mandatory : { VNull },
     load_dotenv_file : { FALSE }]

InitPrecedence ==
    /\ environ \in Arrangements(PrecEnvVars, MaxEnvVars)
    /\ args \in { a \in PrecArgs : ActiveLayers(a, environ) <= MaxActiveLayers }
    /\ world = NoDotenv
    /\ InitLocals

\* ------------------------------------------------------------------------
\* Reading trees as values: the order of the keys and the class of a mapping
\* (dict or Config) set aside
\* ------------------------------------------------------------------------

RECURSIVE Canon(_)
Canon(v) ==
    IF IsDict(v)
    THEN [t |-> "map",
          items |-> { [k |-> v.kv[i].k, v |-> Canon(v.kv[i].v)] :
                      i \in 1..Len(v.kv) }]
    ELSE IF IsList(v) THEN VList([i \in 1..Len(v.l) |-> Canon(v.l[i])])
    ELSE v

\* the dot-paths of the leaves (the values that are not mappings) of d
RECURSIVE LeafPaths(_, _)
LeafPaths(d, prefix) ==
    UNION { IF IsDict(d.kv[i].v)
            THEN LeafPaths(d.kv[i].v, JoinKey(prefix, d.kv[i].k))
            ELSE { JoinKey(prefix, d.kv[i].k) } : i \in 1..Len(d.kv) }

\* layer defines the leaf path p
Defines(layer, p) ==
    get_by_dot(layer, p).ok /\ ~IsDict(get_by_dot(layer, p).v)

\* the proper dot-prefixes of p
ProperPrefixes(p) ==
    LET parts == Split(p, Dot)
    IN { Join(SubSeq(parts, 1, n), Dot) : n \in 1..(Len(parts) - 1) }

\* layer puts a node of another kind on the way of the leaf path p: a value
\* that is not a mapping at a proper prefix of p, or a mapping at p itself
Blocks(layer, p) ==
    \/ get_by_dot(layer, p).ok /\ IsDict(get_by_dot(layer, p).v)
    \/ \E q \in ProperPrefixes(p) :
          get_by_dot(layer, q).ok /\ ~IsDict(get_by_dot(layer, q).v)

Constructed == pc = "done"

\* the layers as they enter the merge, after the construction, in the order
\* defaults, app_defaults, initial data, files, environment, per-app
\* environment, overrides
LayersAsStated ==
    << defaults_data, OrEmpty(args.app_defaults), args_kwargs_data, file_data >>
    \o ExtraFilesData(args.file_paths)
    \o << structured_env_data >> \o app_env_data
    \o << structured_overrides_data >>

\* the same layers with app_defaults below defaults
LayersAsMerged ==
    << OrEmpty(args.app_defaults), defaults_data, args_kwargs_data, file_data >>
    \o ExtraFilesData(args.file_paths)
    \o << structured_env_data >> \o app_env_data
    \o << structured_overrides_data >>

AllLeafPaths(layers) == UNION { LeafPaths(layers[i], << >>) : i \in 1..Len(layers) }

Definers(layers, p) == { i \in 1..Len(layers) : Defines(layers[i], p) }

Highest(S) == CHOOSE i \in S : \A j \in S : j <= i

\* the constructed Config holds at p the value that layer gives it
HoldsValueOf(layer, p) ==
    /\ get_by_dot(self, p).ok
    /\ Canon(get_by_dot(self, p).v) = Canon(get_by_dot(layer, p).v)

MaxEnvNames == 2

sC == << "c" >>
sBC == << "b", "_", "c" >>
sFG == << "f", "_", "g" >>
sHI == << "h", "_", "i" >>
pAB == << "a", ".", "b" >>

EnvDefaults ==
    { Dict(<< KV(sA, Dict(<< KV(sB, Leaf(1)), KV(sC, Leaf(1)) >>)) >>),
      Dict(<< KV(sA, Dict(<< KV(sB, Leaf(1)), KV(sBC, Leaf(1)) >>)) >>),
      Dict(<< KV(sFG, Dict(<< KV(sHI, VBool(FALSE)) >>)) >>) }

EnvFiles ==
    { VNull, File(TRUE, "json", Dict(<< KV(sA, Dict(<< KV(sC, Leaf(3)) >>)) >>)) }

EnvVarPool ==
    { EnvVar(<< "P", "_", "A", "_", "B" >>, << "6", "0", "0", "0" >>),
      EnvVar(<< "P", "_", "A", "_", "B" >>, << "\"", "7", "\"" >>),
      EnvVar(<< "P", "_", "A", "_", "C" >>, << "t", "r", "u", "e" >>),
      EnvVar(<< "P", "_", "A", "_", "B", "_", "C" >>, << "2" >>),
      EnvVar(<< "P", "_", "F", "_", "G", "_", "_", "H", "_", "I" >>, << "t", "r", "u", "e" >>),
      EnvVar(<< "P", "_", "F", "_", "G", "_", "H", "_", "I" >>, << "t", "r", "u", "e" >>),
      EnvVar(<< "H", "O", "M", "E" >>, << "x" >>) }

\* os.environ holds one value for a name
DistinctNames(env) ==
    \A i, j \in 1..Len(env) : i # j => env[i].name # env[j].name

FoundDotenv ==
    [installed |-> TRUE, found |-> TRUE,
     vars |-> << EnvVar(<< "P", "_", "A", "_", "C" >>, << "f", "a", "l", "s", "e" >>) >>]

EnvArgs ==
    [defaults : EnvDefaults, app_defaults : { VNull }, kwargs : { EmptyDict },
     file_path : EnvFiles, file_paths : { << >> }, prefix : { VStr(sP) },
     app_prefixes : { VNull }, overrides_dict : { VNull },
     mandatory : { VNull }, load_dotenv_file : BOOLEAN]

InitEnv ==
    /\ environ \in { e \in Arrangements(EnvVarPool, MaxEnvNames) : DistinctNames(e) }
    /\ args \in EnvArgs
    /\ world \in { w \in { NoDotenv, FoundDotenv } :
                     ~args.load_dotenv_file => w = NoDotenv }
    /\ InitLocals

\* the layers below the environment, merged
BaseMerged == MergeBase(defaults_data, args_kwargs_data, file_data)

\* the structure the environment names are reconciled with
KnownBase == deep_merge(defaults_data, file_data)

\* the name carries the prefix and something after it
IsPrefixed(name) ==
    /\ IsStr(args.prefix)
    /\ StartsWith(name, args.prefix.s \o << Underscore >>)
    /\ Len(name) > Len(args.prefix.s) + 1

Remainder(name) == Drop(name, Len(args.prefix.s) + 1)

SingleUnderscores(r) ==
    /\ Len(r) > 0
    /\ r[1] # Underscore
    /\ r[Len(r)] # Underscore
    /\ \A i \in 1..(Len(r) - 1) : ~(r[i] = Underscore /\ r[i + 1] = Underscore)

\* a.b for A_B
DerivedPath(r) == ReplaceCh(Lower(r), Underscore, Dot)

\* lowercased, each double underscore collapsed to one
Collapsed(r) == ReplaceDouble(Lower(r), Underscore, Underscore)

UnderscoreJoin(path) == ReplaceCh(path, Dot, Underscore)

\* the leaf paths next to p in the mapping that holds p
SiblingPaths(tree, p) ==
    { q \in LeafPaths(tree, << >>) :
        /\ q # p
        /\ Len(Split(q, Dot)) = Len(Split(p, Dot))
        /\ ProperPrefixes(q) = ProperPrefixes(p) }

\* some variable of the environment is aimed at path q
Targeted(q) ==
    \E j \in 1..Len(environ) :
        /\ IsPrefixed(environ[j].name)
        /\ StartsWith(Collapsed(Remainder(environ[j].name)), UnderscoreJoin(q))

\* C2 as stated: a variable P_A_B with single underscores whose derived path
\* a.b is a leaf of defaults or file data overrides that leaf with its parsed
\* value, and the siblings that no variable is aimed at keep the value of the
\* layers below.
C2_EnvOverride_AsStated ==
    Constructed =>
        \A i \in 1..Len(environ) :
            LET r == Remainder(environ[i].name)
                p == DerivedPath(r)
            IN (IsPrefixed(environ[i].name) /\ SingleUnderscores(r)
                    /\ Defines(KnownBase, p))
               => /\ get_by_dot(self, p) = Ok(ParsedValue(VStr(environ[i].value)))
                  /\ \A q \in SiblingPaths(KnownBase, p) :
                         ~Targeted(q) => HoldsValueOf(BaseMerged, q)

\* C3 as stated: a variable whose remainder, lowercased and with double
\* underscores collapsed, is the underscore-join of a known leaf path K puts
\* its value at K, and the tree holds no other leaf path with that
\* underscore-join.
C3_UnderscoreKeys_AsStated ==
    Constructed =>
        \A i \in 1..Len(environ) :
            \A K \in LeafPaths(KnownBase, << >>) :
                (IsPrefixed(environ[i].name)
                     /\ UnderscoreJoin(K) = Collapsed(Remainder(environ[i].name)))
                => /\ get_by_dot(self, K) = Ok(ParsedValue(VStr(environ[i].value)))
                   /\ \A q \in LeafPaths(self, << >>) :
                          UnderscoreJoin(q) = UnderscoreJoin(K) => q = K

\* ------------------------------------------------------------------------
\* overrides_dict over the other layers
\* ------------------------------------------------------------------------

MaxOverrideKeys == 2

sX == << "x" >>
sY == << "y" >>

OvDefaults ==
    { VNull,
      Dict(<< KV(sA, Dict(<< KV(sB, Leaf(1)) >>)) >>),
      Dict(<< KV(sA, Leaf(1)) >>),
      Dict(<< KV(sA, Dict(<< KV(sY, Leaf(1)) >>)) >>) }

OvEnvirons == { << >>, << EnvVar(<< "P", "_", "A", "_", "B" >>, << "5" >>) >> }

OvKeys == { sA, pAB, sX }

OvValues ==
    { VStr(<< "7" >>), VStr(<< "t", "r", "u", "e" >>), Leaf(3),
      Dict(<< KV(sX, Leaf(8)) >>), VStr(<< "{", "}" >>) }

\* the dicts with the keys of a strictly increasing list of keys
OvDicts ==
    UNION { { Dict([i \in 1..Len(ks) |-> KV(ks[i], vs[i])]) :
                vs \in [1..Len(ks) -> OvValues] } :
            ks \in { q \in Arrangements(OvKeys, MaxOverrideKeys) :
                       Len(q) > 0 /\ \A i, j \in 1..Len(q) :
                                        i < j => StrLess(q[i], q[j]) } }

OvArgs ==
    [defaults : OvDefaults, app_defaults : { VNull }, kwargs : { EmptyDict },
     file_path : { VNull }, file_paths : { << >> }, prefix : { VStr(sP) },
     app_prefixes : { VNull }, overrides_dict : OvDicts,
     mandatory : { VNull }, load_dotenv_file : { FALSE }]

InitOverrides ==
    /\ environ \in OvEnvirons
    /\ args \in OvArgs
    /\ world = NoDotenv
    /\ InitLocals

\* ------------------------------------------------------------------------
\* The reference merge, on trees read as values
\* ------------------------------------------------------------------------

CKeys(m) == { e.k : e \in m.items }

CVal(m, k) == (CHOOSE e \in m.items : e.k = k).v

CIsMap(v) == v.t = "map"

\* right-biased recursive merge: a key of x alone keeps its value; for a key of
\* y, two mappings are merged and anything else is replaced by the value of y
RECURSIVE RefMerge(_, _)
RefMerge(x, y) ==
    [t |-> "map",
     items |->
        { [k |-> k,
           v |-> IF k \notin CKeys(y) THEN CVal(x, k)
                 ELSE IF k \in CKeys(x) /\ CIsMap(CVal(x, k)) /\ CIsMap(CVal(y, k))
                      THEN RefMerge(CVal(x, k), CVal(y, k))
                      ELSE CVal(y, k)] : k \in CKeys(x) \cup CKeys(y) }]

\* k is a proper dot-prefix of another key of the dict
IsProperPrefixKey(d, k) ==
    \E j \in 1..Len(d.kv) : StartsWith(d.kv[j].k, k \o << Dot >>)

\* what the layers below overrides_dict hold at k, {} when it is no mapping
LowerMapping(k) ==
    LET lower == deep_merge(BaseMerged, structured_env_data)
        at == get_by_dot(lower, k)
    IN IF at.ok /\ IsDict(at.v) THEN at.v ELSE EmptyDict

\* C4 as stated: for every key k of overrides_dict, get(k) is the parsed
\* value of overrides_dict[k], whatever the other keys are.
C4_OverridesLastWord_AsStated ==
    Constructed =>
        \A k \in Keys(args.overrides_dict) :
            Canon(Config_get(self, k, VNull))
                = Canon(ParsedValue(Item(args.overrides_dict, k)))

\* C4, amended: for every key k of overrides_dict that is not a proper
\* dot-prefix of another key of overrides_dict, get(k) is the parsed value of
\* overrides_dict[k] when that value is not a mapping, and the merge of the
\* mapping the lower layers hold at k with it when it is a mapping.
C4_OverridesLastWord ==
    Constructed =>
        \A k \in Keys(args.overrides_dict) :
            LET parsed == ParsedValue(Item(args.overrides_dict, k))
            IN ~IsProperPrefixKey(args.overrides_dict, k) =>
                   Canon(Config_get(self, k, VNull))
                       = IF IsDict(parsed)
                         THEN RefMerge(Canon(LowerMapping(k)), Canon(parsed))
                         ELSE Canon(parsed)

\* an override of a.b, next to an override of its prefix a, wins over the
\* default and over the environment
C4_Witness ==
    /\ Constructed
    /\ Defines(defaults_data, pAB)
    /\ Defines(structured_env_data, pAB)
    /\ Keys(args.overrides_dict) = { sA, pAB }
    /\ Item(args.overrides_dict, pAB) = VStr(<< "7" >>)
    /\ get_by_dot(self, pAB) = Ok(Leaf(7))

\* ------------------------------------------------------------------------
\* Mandatory keys
\* ------------------------------------------------------------------------

MaxMandatory == 2

sE == << "e" >>
sO == << "o" >>
pXY == << "x", ".", "y" >>
pABC == << "a", ".", "b", ".", "c" >>

ManDefaults ==
    { VNull,
      Dict(<< KV(sA, Dict(<< KV(sB, Leaf(1)) >>)), KV(sN, VNull) >>),
      Dict(<< KV(sA, Leaf(1)) >>) }

ManEnvirons == { << >>, << EnvVar(<< "P", "_", "E" >>, << "5" >>) >> }

ManOverrides == { VNull, Dict(<< KV(sO, VStr(<< "7" >>)) >>) }

ManKeys == { pAB, pXY, pABC, sN, sE, sO }

ManLists ==
    { VNull } \cup { VList(q) : q \in Arrangements(ManKeys, MaxMandatory) }

ManArgs ==
    [defaults : ManDefaults, app_defaults : { VNull }, kwargs : { EmptyDict },
     file_path : { VNull }, file_paths : { << >> }, prefix : { VStr(sP) },
     app_prefixes : { VNull }, overrides_dict : ManOverrides,
     mandatory : ManLists, load_dotenv_file : { FALSE }]

InitMandatory ==
    /\ environ \in ManEnvirons
    /\ args \in ManArgs
    /\ world = NoDotenv
    /\ InitLocals

\* the path resolves in the tree: every segment is a key of the mapping
\* reached so far
RECURSIVE RefResolves(_, _)
RefResolves(v, parts) ==
    IF Len(parts) = 0 THEN TRUE
    ELSE /\ CIsMap(v)
         /\ parts[1] \in CKeys(v)
         /\ RefResolves(CVal(v, parts[1]), Tail(parts))

\* the mandatory paths that do not resolve in the final merged tree, in the
\* order given
Unresolved ==
    LET Fails(k) == ~RefResolves(Canon(final_merged_data), Split(k, Dot))
    IN IF args.mandatory.t = "list" THEN SelectSeq(args.mandatory.l, Fails)
       ELSE << >>

Finished == pc \in { "done", "raised" }

\* C5: construction raises MissingMandatoryConfig exactly when a mandatory
\* path fails to resolve in the final merged tree, and missing_keys is the
\* list of all such paths in the order given; a null value, a value from the
\* environment and a value from overrides_dict count as present.
C5_MandatoryCompleteness ==
    Finished =>
        /\ (pc = "raised") = (Len(Unresolved) > 0)
        /\ pc = "raised" =>
               exc = [type |-> "MissingMandatoryConfig", missing_keys |-> Unresolved]
        /\ pc = "done" => exc = NoExc

\* both mandatory paths are missing, the second one through a scalar, and
\* both are reported
C5_Witness ==
    /\ pc = "raised"
    /\ args.mandatory = VList(<< pXY, pABC >>)
    /\ Defines(final_merged_data, pAB)
    /\ exc.missing_keys = << pXY, pABC >>

\* ------------------------------------------------------------------------
\* deep_merge on objects: which dicts and lists are the same object
\* ------------------------------------------------------------------------

\* a reference to the dict or list stored in cell a of the heap; a dict is
\* stored as a Dict or Cfg record and a list as a VList record, with a Ref
\* wherever an item is itself a dict or a list
Ref(a) == [t |-> "ref", a |-> a]

IsRef(v) == v.t = "ref"

\* the items of a cell, in order
Held(cell) ==
    IF IsDict(cell) THEN [i \in 1..Len(cell.kv) |-> cell.kv[i].v] ELSE cell.l

\* the cell with its items replaced, in order
Holding(cell, vs) ==
    IF IsDict(cell)
    THEN [t |-> "map", c |-> cell.c,
          kv |-> [i \in 1..Len(vs) |-> KV(cell.kv[i].k, vs[i])]]
    ELSE VList(vs)

\* the objects a caller builds for the value v: a new cell for every dict
\* and list of v
RECURSIVE Alloc(_, _), AllocItems(_, _, _, _)
Alloc(h, v) ==
    IF IsDict(v) \/ IsList(v)
    THEN LET r == AllocItems(h, Held(v), 1, << >>)
         IN [h |-> Append(r.h, Holding(v, r.vs)), v |-> Ref(Len(r.h) + 1)]
    ELSE [h |-> h, v |-> v]

AllocItems(h, vals, i, acc) ==
    IF i > Len(vals) THEN [h |-> h, vs |-> acc]
    ELSE LET r == Alloc(h, vals[i])
         IN AllocItems(r.h, vals, i + 1, Append(acc, r.v))

\* the value an object has: what == compares and what printing shows
RECURSIVE Val(_, _)
Val(h, v) ==
    IF IsRef(v)
    THEN Holding(h[v.a], [i \in 1..Len(Held(h[v.a])) |-> Val(h, Held(h[v.a])[i])])
    ELSE v

\* the dicts and lists reachable from v, v's own included
RECURSIVE Reach(_, _)
Reach(h, v) ==
    IF IsRef(v)
    THEN {v.a} \cup UNION {Reach(h, Held(h[v.a])[i]) : i \in 1..Len(Held(h[v.a]))}
    ELSE { }

\* copy.deepcopy(x) with its memo: a new object for every dict and list
\* below x (a Config is rebuilt as a Config), one copy per original
RECURSIVE deepcopy(_, _, _), CopyItems(_, _, _, _, _)
deepcopy(h, memo, x) ==
    IF ~IsRef(x) THEN [h |-> h, memo |-> memo, v |-> x]
    ELSE IF \E m \in memo : m.from = x.a
    THEN [h |-> h, memo |-> memo,
          v |-> Ref((CHOOSE m \in memo : m.from = x.a).to)]
    ELSE LET y == Len(h) + 1
             r == CopyItems(Append(h, Holding(h[x.a], << >>)),
                            memo \cup {[from |-> x.a, to |-> y]},
                            Held(h[x.a]), 1, << >>)
         IN [h |-> [i \in 1..Len(r.h) |->
                      IF i = y THEN Holding(h[x.a], r.vs) ELSE r.h[i]],
             memo |-> r.memo, v |-> Ref(y)]

CopyItems(h, memo, vals, i, acc) ==
    IF i > Len(vals) THEN [h |-> h, memo |-> memo, vs |-> acc]
    ELSE LET r == deepcopy(h, memo, vals[i])
         IN CopyItems(r.h, r.memo, vals, i + 1, Append(acc, r.v))

\* merged = base: the copy of line 73 left out
CopyOfBase_Alias(h, base) == [h |-> h, memo |-> { }, v |-> base]

\* merged = copy.deepcopy(base)
CopyOfBase(h, base) == deepcopy(h, { }, base)

\* merged[key] = value_updates for every value: the copy of line 93 left out
CopyOfValue_Alias(h, value_updates) ==
    [h |-> h, memo |-> { }, v |-> value_updates]

\* copy.deepcopy(value_updates)
CopyOfValue(h, value_updates) == deepcopy(h, { }, value_updates)

\* isinstance(v, dict) and isinstance(v, Config) for a stored value
IsDictAt(h, v) == IsRef(v) /\ IsDict(h[v.a])

IsConfigAt(h, v) == IsRef(v) /\ IsConfig(h[v.a])

\* the loop of get_by_dot over stored objects, from segment i on
RECURSIVE GetWalkAt(_, _, _, _)
GetWalkAt(h, d, parts, i) ==
    IF i > Len(parts) THEN Ok(d)
    ELSE IF ~IsDictAt(h, d) THEN Raise("TypeError")
    ELSE IF ~Has(h[d.a], parts[i]) THEN Raise("KeyError")
    ELSE GetWalkAt(h, Item(h[d.a], parts[i]), parts, i + 1)

\* merged.get(key): dict.get on a plain dict, Config.get on a Config, which
\* follows the dots of key; None when nothing is found
MergedGet(h, merged, key) ==
    IF IsConfig(h[merged.a])
    THEN LET r == GetWalkAt(h, merged, Split(key, Dot), 1)
         IN IF r.ok THEN r.v ELSE VNull
    ELSE IF Has(h[merged.a], key) THEN Item(h[merged.a], key) ELSE VNull

\* merged[key] = v
MergedSet(h, merged, key, v) ==
    [i \in 1..Len(h) |->
        IF i = merged.a THEN SetItem(h[merged.a], key, v) ELSE h[i]]

\* deep_merge(base, updates) on objects, and its loop from item i on
RECURSIVE DeepMergeObjects(_, _, _), MergeObjectsLoop(_, _, _, _)
DeepMergeObjects(h, base, updates) ==
    LET c == CopyOfBase(h, base)
    IN MergeObjectsLoop(c.h, c.v, updates, 1)

MergeObjectsLoop(h, merged, updates, i) ==
    IF i > Len(h[updates.a].kv) THEN [h |-> h, v |-> merged]
    ELSE LET key == h[updates.a].kv[i].k
             value_updates == h[updates.a].kv[i].v
             value_base == MergedGet(h, merged, key)
         IN IF IsDictAt(h, value_base) /\ IsDictAt(h, value_updates)
            THEN LET r == DeepMergeObjects(h, value_base, value_updates)
                 IN MergeObjectsLoop(MergedSet(r.h, merged, key, r.v),
                                     merged, updates, i + 1)
            ELSE IF IsConfigAt(h, value_updates)
            THEN MergeObjectsLoop(MergedSet(h, merged, key, value_updates),
                                  merged, updates, i + 1)
            ELSE LET copied == CopyOfValue(h, value_updates)
                 IN MergeObjectsLoop(MergedSet(copied.h, merged, key, copied.v),
                                     merged, updates, i + 1)

\* ------------------------------------------------------------------------
\* One deep_merge call and what its caller does with the three objects
\* ------------------------------------------------------------------------

sM == << "m" >>

\* a key with a dot in it
sAX == << "a", ".", "x" >>

\* writes a caller makes after the call
MaxMutations == 1

\* no Config is under construction
NoConstruction ==
    /\ args = VNull
    /\ world = VNull
    /\ environ = << >>
    /\ pc = "none"
    /\ defaults_data = EmptyDict
    /\ args_kwargs_data = EmptyDict
    /\ file_data = EmptyDict
    /\ final_merged_data = EmptyDict
    /\ structured_env_data = EmptyDict
    /\ app_env_data = << >>
    /\ structured_overrides_data = EmptyDict
    /\ self = Cfg(<< >>)
    /\ exc = NoExc
    /\ ret = NoRet

\* what a side holds at key a: nothing, a scalar, a list, plain dicts of
\* one and two levels, a Config, a Config inside a plain dict
MergeItemsA(leaf) ==
    { << >>,
      << KV(sA, leaf) >>,
      << KV(sA, VList(<< leaf >>)) >>,
      << KV(sA, Dict(<< KV(sX, leaf) >>)) >>,
      << KV(sA, Dict(<< KV(sY, leaf) >>)) >>,
      << KV(sA, Cfg(<< KV(sX, leaf) >>)) >>,
      << KV(sA, Dict(<< KV(sX, Dict(<< KV(sY, leaf) >>)) >>)) >>,
      << KV(sA, Dict(<< KV(sX, VList(<< leaf >>)) >>)) >>,
      << KV(sA, Dict(<< KV(sX, Cfg(<< KV(sY, leaf) >>)) >>)) >> }

\* and next to it: nothing, key b with a scalar or a Config, a dict at
\* the key "a.x"
MergeItemsB(leaf) ==
    { << >>,
      << KV(sB, leaf) >>,
      << KV(sB, Cfg(<< KV(sX, leaf) >>)) >>,
      << KV(sAX, Dict(<< KV(sX, leaf) >>)) >> }

\* the dicts and Configs a side can be
MergeTrees(leaf) ==
    { [t |-> "map", c |-> c, kv |-> a \o b] :
        c \in BOOLEAN, a \in MergeItemsA(leaf), b \in MergeItemsB(leaf) }

InitMerge ==
    /\ NoConstruction
    /\ NoCalls
    /\ \E b \in MergeTrees(Leaf(1)), u \in MergeTrees(Leaf(2)) :
         LET rb == Alloc(<< >>, b)
             ru == Alloc(rb.h, u)
         IN /\ heap = ru.h
            /\ m_base = rb.v
            /\ m_updates = ru.v
            /\ base0 = b
            /\ updates0 = u
    /\ m_result = VNull
    /\ mpc = "call"
    /\ result0 = VNull
    /\ touched = { }

\* result = deep_merge(base, updates)
CallDeepMerge ==
    /\ mpc = "call"
    /\ LET r == DeepMergeObjects(heap, m_base, m_updates)
       IN /\ heap' = r.h
          /\ m_result' = r.v
          /\ result0' = Val(r.h, r.v)
    /\ mpc' = "merged"
    /\ UNCHANGED << m_base, m_updates, base0, updates0, touched >>
    /\ UNCHANGED << cvars, tvars >>

\* the object reached through base, updates or the result
Root(via) ==
    IF via = "base" THEN m_base
    ELSE IF via = "updates" THEN m_updates
    ELSE m_result

\* node.m = 9 (node["m"] = 9 on a plain dict) on a dict reached through
\* one of the three objects
Mutate ==
    /\ mpc \in {"merged", "mutated"}
    /\ Cardinality(touched) < MaxMutations
    /\ \E via \in {"base", "updates", "result"} :
         \E a \in Reach(heap, Root(via)) :
            /\ IsDict(heap[a])
            /\ heap' = [i \in 1..Len(heap) |->
                          IF i = a THEN SetItem(heap[a], sM, VInt(9))
                          ELSE heap[i]]
            /\ touched' = touched \cup {[via |-> via, a |-> a]}
    /\ mpc' = "mutated"
    /\ UNCHANGED << m_base, m_updates, m_result, base0, updates0, result0 >>
    /\ UNCHANGED << cvars, tvars >>

NextMerge == CallDeepMerge \/ Mutate

\* ------------------------------------------------------------------------
\* deep_merge: the function it computes and the objects it returns
\* ------------------------------------------------------------------------

MergeReturned == mpc = "merged"

AfterMerge == mpc \in {"merged", "mutated"}

\* C6: deep_merge(base, updates), as a value, is the right-biased recursive
\* merge of the two mappings: a key of one side only is kept, a key of both
\* sides is merged when both values are mappings and takes the value of
\* updates otherwise (a list replaces a list whole, a mapping replaces a
\* scalar, a scalar replaces a mapping), so that an empty side leaves the
\* other side as it is
C6_MergeIsReference ==
    MergeReturned =>
        /\ Canon(Val(heap, m_result)) = RefMerge(Canon(base0), Canon(updates0))
        /\ Canon(deep_merge(base0, updates0))
              = RefMerge(Canon(base0), Canon(updates0))
        /\ Len(updates0.kv) = 0 => Val(heap, m_result) = base0
        /\ Len(base0.kv) = 0 => Canon(Val(heap, m_result)) = Canon(updates0)

\* a list met a list, and a one-sided key sat next to it
C6_Witness ==
    /\ MergeReturned
    /\ base0 = Dict(<< KV(sA, VList(<< Leaf(1) >>)), KV(sB, Leaf(1)) >>)
    /\ updates0 = Dict(<< KV(sA, VList(<< Leaf(2) >>)) >>)
    /\ result0 = Dict(<< KV(sA, VList(<< Leaf(2) >>)), KV(sB, Leaf(1)) >>)

\* C7: when deep_merge returns, base and updates are equal, at every depth,
\* to what they were before the call
C7_ArgumentsUntouched ==
    MergeReturned =>
        /\ Val(heap, m_base) = base0
        /\ Val(heap, m_updates) = updates0

\* the call merged two nested mappings into a result unlike both arguments
C7_Witness ==
    /\ MergeReturned
    /\ Has(base0, sA) /\ IsDict(Item(base0, sA))
    /\ Has(updates0, sA) /\ IsDict(Item(updates0, sA))
    /\ Canon(result0) # Canon(base0)
    /\ Canon(result0) # Canon(updates0)

\* every write made after the call went through the object named
OnlyThrough(vias) == \A w \in touched : w.via \in vias

\* C8 as stated: the result shares no dict or list with base or updates,
\* whatever updates holds, so that a later write on one side never shows on
\* the other
C8_NoSharedNode_AsStated ==
    AfterMerge =>
        /\ Reach(heap, m_result)
             \cap (Reach(heap, m_base) \cup Reach(heap, m_updates)) = { }
        /\ OnlyThrough({"result"}) =>
              Val(heap, m_base) = base0 /\ Val(heap, m_updates) = updates0
        /\ OnlyThrough({"base", "updates"}) => Val(heap, m_result) = result0

\* the objects of updates the result is expected to hold as they are: the
\* Config values of updates, and all below them, at the keys where base has
\* no mapping to merge them into, followed through the mappings both hold
RECURSIVE InstalledConfigs(_, _, _)
InstalledConfigs(h, base, updates) ==
    UNION { LET value_updates == h[updates.a].kv[i].v
                value_base == MergedGet(h, base, h[updates.a].kv[i].k)
            IN IF IsDictAt(h, value_base) /\ IsDictAt(h, value_updates)
               THEN InstalledConfigs(h, value_base, value_updates)
               ELSE IF IsConfigAt(h, value_updates)
               THEN Reach(h, value_updates)
               ELSE { } : i \in 1..Len(h[updates.a].kv) }

\* C8: the result shares nothing with base, and with updates exactly the
\* Config values it took over unmerged; a write anywhere else on one side
\* never shows on the other
C8_SharesOnlyInstalledConfigs ==
    AfterMerge =>
        LET installed == InstalledConfigs(heap, m_base, m_updates)
        IN /\ Reach(heap, m_result) \cap Reach(heap, m_base) = { }
           /\ Reach(heap, m_result) \cap Reach(heap, m_updates) = installed
           /\ OnlyThrough({"result"}) => Val(heap, m_base) = base0
           /\ (\A w \in touched : w.a \notin installed) =>
                 /\ OnlyThrough({"result"}) => Val(heap, m_updates) = updates0
                 /\ OnlyThrough({"base", "updates"}) =>
                       Val(heap, m_result) = result0

\* the result took over a Config of updates, and the caller then wrote to a
\* nested dict of the result that is the result's own
C8_Witness ==
    /\ mpc = "mutated"
    /\ InstalledConfigs(heap, m_base, m_updates) # { }
    /\ \E w \in touched :
          /\ w.via = "result"
          /\ w.a # m_result.a
          /\ w.a \notin InstalledConfigs(heap, m_base, m_updates)

\* ------------------------------------------------------------------------
\* Path lookup on a constructed Config
\* ------------------------------------------------------------------------

sUA == << "_", "a" >>

pUAB == << "_", "a", ".", "b" >>

pAC == << "a", ".", "c" >>

\* the trees looked into: a nested mapping, a stored null, a scalar and a
\* list where a mapping is asked for, keys that start with an underscore
AccessDefaults ==
    { VNull,
      Dict(<< KV(sA, Dict(<< KV(sB, Leaf(1)) >>)) >>),
      Dict(<< KV(sA, Dict(<< KV(sB, VNull) >>)) >>),
      Dict(<< KV(sA, Dict(<< KV(sB, Dict(<< KV(sC, Leaf(1)) >>)) >>)) >>),
      Dict(<< KV(sA, Leaf(1)) >>),
      Dict(<< KV(sA, VList(<< Leaf(1) >>)) >>),
      Dict(<< KV(sA, Dict(<< KV(sB, VList(<< Leaf(1) >>)) >>)) >>),
      Dict(<< KV(sUA, Dict(<< KV(sB, Leaf(1)) >>)) >>),
      Dict(<< KV(sUA, Leaf(1)), KV(sA, Dict(<< KV(sC, Leaf(2)) >>)) >>) }

\* the paths asked for, the empty string among them
AccessKeys == { sA, pAB, pABC, pAC, sB, sUA, pUAB, << >> }

\* the defaults handed to Config.get
AccessFallbacks == { VNull, VInt(0) }

AccessArgs ==
    [defaults : AccessDefaults, app_defaults : { VNull }, kwargs : { EmptyDict },
     file_path : { VNull }, file_paths : { << >> }, prefix : { VNull },
     app_prefixes : { VNull }, overrides_dict : { VNull },
     mandatory : { VNull }, load_dotenv_file : { FALSE }]

InitAccess ==
    /\ environ = << >>
    /\ args \in AccessArgs
    /\ world = NoDotenv
    /\ InitLocals

\* the accessors a caller uses on the finished Config
Lookup ==
    \/ \E key \in AccessKeys : CallGetByDot(key)
    \/ \E key \in AccessKeys, default \in AccessFallbacks : CallGet(key, default)
    \/ \E key \in AccessKeys : CallContains(key)

NextAccess == Construct \/ Lookup

\* the node j segments down the path, when the segments before resolve
RECURSIVE NodeAt(_, _, _)
NodeAt(tree, parts, j) ==
    IF j = 0 THEN tree ELSE Item(NodeAt(tree, parts, j - 1), parts[j])

\* segment j names a key of the mapping the segments before it lead to
SegmentResolves(tree, parts, j) ==
    /\ IsDict(NodeAt(tree, parts, j - 1))
    /\ Has(NodeAt(tree, parts, j - 1), parts[j])

PathResolves(tree, parts) ==
    \A j \in 1..Len(parts) : SegmentResolves(tree, parts, j)

\* the first segment that does not resolve
FirstFailing(tree, parts) ==
    CHOOSE j \in 1..Len(parts) :
        /\ \A k \in 1..(j - 1) : SegmentResolves(tree, parts, k)
        /\ ~SegmentResolves(tree, parts, j)

\* what the lookup of path is to give: the value, or the error of the first
\* failing segment
Expected(tree, path) ==
    LET parts == Split(path, Dot)
    IN IF PathResolves(tree, parts) THEN Ok(NodeAt(tree, parts, Len(parts)))
       ELSE IF IsDict(NodeAt(tree, parts, FirstFailing(tree, parts) - 1))
       THEN Raise("KeyError")
       ELSE Raise("TypeError")

LookupReturns ==
    pc = "done" =>
        /\ ret.op = "get_by_dot" => ret.out = Expected(self, ret.key)
        /\ ret.op = "get" =>
              ret.out = IF Expected(self, ret.key).ok
                        THEN Expected(self, ret.key).v
                        ELSE ret.default

\* C9: get_by_dot returns the value when every segment resolves, raises
\* KeyError when the first failing segment is absent from a mapping and
\* TypeError when it is looked up in a scalar or a list; Config.get returns
\* the stored value, a stored null included, whenever get_by_dot succeeds
\* and the default otherwise, never an error; no lookup changes the tree
C9_LookupSemantics ==
    /\ [] LookupReturns
    /\ [][pc = "done" => self' = self]_vars

\* Config.get was asked, with default 0, for a path that holds null, and
\* returned null
C9_Witness ==
    /\ pc = "done"
    /\ ret = [op |-> "get", key |-> pAB, default |-> VInt(0), out |-> VNull]
    /\ get_by_dot(self, pAB) = Ok(VNull)

\* C10 as stated: p in cfg is true exactly when get_by_dot(cfg, p) succeeds,
\* also for a path whose first segment starts with an underscore
C10_ContainsIsGetSucceeds_AsStated ==
    (pc = "done" /\ ret.op = "contains") =>
        ret.out = get_by_dot(self, ret.key).ok

\* ------------------------------------------------------------------------
\* Attribute assignment on a constructed Config
\* ------------------------------------------------------------------------

\* a wrong __setattr__, for comparison: a list is stored as it is handed in
Config_setattr_ListAsIs(node, name, value) ==
    IF StartsWith(name, << Underscore >>) THEN node
    ELSE IF IsDict(value) /\ ~IsConfig(value)
    THEN SetItem(node, name, _wrap_nested_items(WrapValue(value)))
    ELSE SetItem(node, name, value)

\* Config.__setattr__(name, value): the node afterwards.  A name with a
\* leading underscore goes to the instance dictionary, not to the keys; a
\* plain dict becomes Config(value), a list is copied, and both are wrapped;
\* anything else, a Config included, is stored as it is
Config_setattr(node, name, value) ==
    IF StartsWith(name, << Underscore >>) THEN node
    ELSE IF IsDict(value) /\ ~IsConfig(value)
    THEN SetItem(node, name, _wrap_nested_items(WrapValue(value)))
    ELSE IF IsList(value)
    THEN SetItem(node, name, _wrap_nested_items(value))
    ELSE SetItem(node, name, value)

\* one step from a node to a child: through a key, or (idx > 0) a list index
KeyStep(k) == [key |-> k, idx |-> 0]

IdxStep(i) == [key |-> << >>, idx |-> i]

\* the Config nodes below v, each as the steps cfg.k, cfg[k][i] that lead to
\* it; a caller reaches a node to assign to through Configs and lists only
RECURSIVE ConfigNodes(_)
ConfigNodes(v) ==
    IF IsConfig(v)
    THEN { << >> } \cup
         UNION { { << KeyStep(v.kv[i].k) >> \o p : p \in ConfigNodes(v.kv[i].v) } :
                 i \in 1..Len(v.kv) }
    ELSE IF IsList(v)
    THEN UNION { { << IdxStep(i) >> \o p : p \in ConfigNodes(v.l[i]) } :
                 i \in 1..Len(v.l) }
    ELSE { }

\* the tree after node.name = value on the node the steps lead to
RECURSIVE AssignAt(_, _, _, _, _)
AssignAt(v, steps, j, name, value) ==
    IF j > Len(steps) THEN Config_setattr(v, name, value)
    ELSE IF steps[j].idx = 0
    THEN SetItem(v, steps[j].key,
                 AssignAt(Item(v, steps[j].key), steps, j + 1, name, value))
    ELSE VList([i \in 1..Len(v.l) |->
                  IF i = steps[j].idx
                  THEN AssignAt(v.l[i], steps, j + 1, name, value)
                  ELSE v.l[i]])

\* attribute assignments made on one Config
MaxAssignments == 2

sL == << "l" >>

sUX == << "_", "x" >>

\* the trees a Config is built from: mappings in mappings, in a list, in a
\* list inside a list, and a dotted file-style key
AttrDefaults ==
    { VNull,
      Dict(<< KV(sA, Dict(<< KV(sB, Dict(<< KV(sC, Leaf(1)) >>)) >>)) >>),
      Dict(<< KV(sL, VList(<< Dict(<< KV(sB, Leaf(1)) >>), Leaf(1) >>)) >>),
      Dict(<< KV(sL, VList(<< VList(<< Dict(<< KV(sB, Dict(<< >>)) >>) >>) >>)) >>),
      Dict(<< KV(sA, Leaf(1)), KV(sUX, Dict(<< KV(sB, Leaf(1)) >>)) >>) }

\* the values assigned: a scalar, plain mappings and lists that hold
\* mappings at several depths, and a Config a caller constructed before
AttrValues ==
    { Leaf(7),
      Dict(<< KV(sB, Dict(<< KV(sC, Leaf(7)) >>)) >>),
      Dict(<< KV(sL, VList(<< Dict(<< >>) >>)) >>),
      VList(<< Dict(<< KV(sB, Leaf(7)) >>) >>),
      VList(<< VList(<< Dict(<< KV(sB, Dict(<< >>)) >>) >>) >>),
      WrapValue(Dict(<< KV(sB, Dict(<< >>)) >>)) }

AttrNames == { sA, sUX }

AttrArgs ==
    [defaults : AttrDefaults, app_defaults : { VNull }, kwargs : { EmptyDict },
     file_path : { VNull }, file_paths : { << >> }, prefix : { VNull },
     app_prefixes : { VNull }, overrides_dict : { VNull },
     mandatory : { VNull }, load_dotenv_file : { FALSE }]

InitAttr ==
    /\ environ = << >>
    /\ args \in AttrArgs
    /\ world = NoDotenv
    /\ InitLocals

\* node.name = value on a Config node of the finished tree
CallSetAttr(steps, name, value) ==
    /\ pc = "done"
    /\ ncalls < MaxAssignments
    /\ steps \in ConfigNodes(self)
    /\ self' = AssignAt(self, steps, 1, name, value)
    /\ ret' = [op |-> "setattr", steps |-> steps, name |-> name,
               value |-> value]
    /\ ncalls' = ncalls + 1
    /\ UNCHANGED << hvars, _entries, _history, recorded >>
    /\ UNCHANGED << args, app_env_data, world, environ, pc, defaults_data,
                    args_kwargs_data, file_data, final_merged_data,
                    structured_env_data, structured_overrides_data, exc >>

SetAttr ==
    \E steps \in ConfigNodes(self), name \in AttrNames, value \in AttrValues :
        CallSetAttr(steps, name, value)

\* C11: once a Config is constructed, and after every attribute assignment
\* of a mapping or a list on its root or on a nested node, every mapping
\* reachable from the root is a Config, the mappings inside lists and inside
\* lists of lists included
C11_WrappingInvariant == pc = "done" => ~HasPlainDict(self)

\* a list holding a list holding a mapping was assigned on a nested node
C11_Witness ==
    /\ pc = "done"
    /\ ret.op = "setattr"
    /\ Len(ret.steps) > 0
    /\ ret.value = VList(<< VList(<< Dict(<< KV(sB, Dict(<< >>)) >>) >>) >>)
    /\ ~StartsWith(ret.name, << Underscore >>)
    /\ ~HasPlainDict(self)

\* ------------------------------------------------------------------------
\* Config.as_dict
\* ------------------------------------------------------------------------

\* Config.as_dict(): a Config value is converted in turn, the items of a
\* list are converted when they are Configs and deep-copied otherwise, any
\* other value is deep-copied (a copy keeps the class of what it copies)
RECURSIVE as_dict(_)
as_dict(cfg) ==
    Dict([i \in 1..Len(cfg.kv) |->
            KV(cfg.kv[i].k,
               LET value == cfg.kv[i].v
               IN IF IsConfig(value) THEN as_dict(value)
                  ELSE IF IsList(value)
                  THEN VList([j \in 1..Len(value.l) |->
                                IF IsConfig(value.l[j])
                                THEN as_dict(value.l[j])
                                ELSE value.l[j]])
                  ELSE value)])

\* plain = cfg.as_dict() on the finished Config
CallAsDict ==
    /\ pc = "done"
    /\ ret' = [op |-> "as_dict", out |-> as_dict(self)]
    /\ UNCHANGED << hvars, tvars >>
    /\ UNCHANGED << args, app_env_data, world, environ, pc, defaults_data,
                    args_kwargs_data, file_data, final_merged_data,
                    structured_env_data, structured_overrides_data, self, exc >>

\* is some mapping at or below v a Config?
RECURSIVE HasConfigNode(_)
HasConfigNode(v) ==
    IF IsDict(v)
    THEN v.c \/ \E i \in 1..Len(v.kv) : HasConfigNode(v.kv[i].v)
    ELSE IF IsList(v) THEN \E i \in 1..Len(v.l) : HasConfigNode(v.l[i])
    ELSE FALSE

\* C12 as stated: Config(X).as_dict() equals the plain tree X, and no node
\* of the result, at any depth, is a Config, the mappings inside a list that
\* is itself inside a list included
C12_AsDictIsPlain_AsStated ==
    (pc = "done" /\ ret.op = "as_dict") =>
        /\ Canon(ret.out) = Canon(OrEmpty(args.defaults))
        /\ ~HasConfigNode(ret.out)

\* ------------------------------------------------------------------------
\* Attribute reads and deletes
\* ------------------------------------------------------------------------

sGet == << "g", "e", "t" >>

sItems == << "i", "t", "e", "m", "s" >>

s_prefix == << "_", "p", "r", "e", "f", "i", "x" >>

s_load_dotenv_file == << "_", "l", "o", "a", "d", "_", "d", "o", "t", "e", "n", "v", "_", "f", "i", "l", "e" >>

\* names the class itself answers, before __getattr__ is asked: the method
\* get of Config and the method items it inherits from dict
ClassAttributes == { sGet, sItems }

VMethod(name) == [t |-> "method", name |-> name]

\* self.__dict__ once __init__ has run: the two assignments it starts with
InstanceDict(a) ==
    Dict(<< KV(s_prefix, a.prefix),
            KV(s_load_dotenv_file, VBool(a.load_dotenv_file)) >>)

\* Config.__getattr__(name)
Config_getattr(node, inst, name) ==
    IF name = s_prefix \/ name = s_load_dotenv_file
    THEN Ok(IF Has(inst, name) THEN Item(inst, name) ELSE VNull)
    ELSE IF StartsWith(name, << Underscore >>) THEN Raise("AttributeError")
    ELSE IF Has(node, name) THEN Ok(Item(node, name))
    ELSE Raise("AttributeError")

\* reading node.name: the instance dictionary first, then the class, and
\* __getattr__ only when neither knows the name
GetAttribute(node, inst, name) ==
    IF Has(inst, name) THEN Ok(Item(inst, name))
    ELSE IF name \in ClassAttributes THEN Ok(VMethod(name))
    ELSE Config_getattr(node, inst, name)

\* Config.__delattr__(name): the node afterwards, or the exception
Config_delattr(node, name) ==
    IF StartsWith(name, << Underscore >>) THEN Raise("AttributeError")
    ELSE IF Has(node, name) THEN Ok(DelItem(node, name))
    ELSE Raise("AttributeError")

\* the trees read and deleted from: as before, and one whose keys are also
\* names of the class
NodeDefaults ==
    AttrDefaults \cup
        { Dict(<< KV(sGet, Leaf(1)), KV(sA, Dict(<< KV(sItems, Leaf(2)) >>)) >>) }

NodeNames == { sA, sB, sGet, sItems, sUX, s_prefix }

NodeArgs ==
    [defaults : NodeDefaults, app_defaults : { VNull }, kwargs : { EmptyDict },
     file_path : { VNull }, file_paths : { << >> }, prefix : { VNull, VStr(sP) },
     app_prefixes : { VNull }, overrides_dict : { VNull },
     mandatory : { VNull }, load_dotenv_file : { FALSE }]

InitNode ==
    /\ environ = << >>
    /\ args \in NodeArgs
    /\ world = NoDotenv
    /\ InitLocals

\* cfg.name
CallGetAttr(name) ==
    /\ pc = "done"
    /\ ret' = [op |-> "getattr", name |-> name,
               out |-> GetAttribute(self, InstanceDict(args), name)]
    /\ UNCHANGED << hvars, tvars >>
    /\ UNCHANGED << args, app_env_data, world, environ, pc, defaults_data,
                    args_kwargs_data, file_data, final_merged_data,
                    structured_env_data, structured_overrides_data, self, exc >>

\* del cfg.name
CallDelAttr(name) ==
    /\ pc = "done"
    /\ LET r == Config_delattr(self, name)
       IN /\ self' = IF r.ok THEN r.v ELSE self
          /\ ret' = [op |-> "delattr", name |-> name, before |-> self,
                     out |-> IF r.ok THEN Ok(VNull) ELSE r]
    /\ UNCHANGED << hvars, tvars >>
    /\ UNCHANGED << args, app_env_data, world, environ, pc, defaults_data,
                    args_kwargs_data, file_data, final_merged_data,
                    structured_env_data, structured_overrides_data, exc >>

AttrAccess ==
    \/ \E name \in NodeNames : CallGetAttr(name)
    \/ \E name \in NodeNames : CallDelAttr(name)

\* a key a caller may read as an attribute: present, no leading underscore
PublicKey(node, name) ==
    Has(node, name) /\ ~StartsWith(name, << Underscore >>)

\* reading cfg.name gives cfg[name] for a public key and AttributeError for
\* an absent key and for every name with a leading underscore
ReadMirrorsKey ==
    ret.op = "getattr" =>
        ret.out = IF PublicKey(self, ret.name) THEN Ok(Item(self, ret.name))
                  ELSE Raise("AttributeError")

\* del cfg.name takes exactly that key away, and raises AttributeError,
\* changing nothing, for an absent key and a leading underscore
DeleteMirrorsKey ==
    ret.op = "delattr" =>
        IF PublicKey(ret.before, ret.name)
        THEN /\ ret.out.ok
             /\ ~Has(self, ret.name)
             /\ self.kv = SelectSeq(ret.before.kv,
                                    LAMBDA item : item.k # ret.name)
        ELSE /\ ret.out = Raise("AttributeError")
             /\ self = ret.before

\* C15 as stated: for every key k of a Config node that does not start with
\* an underscore cfg.k is cfg[k]; reading an absent key or any name that
\* starts with an underscore raises AttributeError; deleting an attribute
\* removes exactly that key, and raises AttributeError when the key is
\* absent or the name starts with an underscore
C15_AttributeMirrorsKey_AsStated ==
    pc = "done" => (ReadMirrorsKey /\ DeleteMirrorsKey)

\* ------------------------------------------------------------------------
\* The .env file and the process environment
\* ------------------------------------------------------------------------

nPA == << "P", "_", "A" >>

nPB == << "P", "_", "B" >>

nPNA == << "P", "_", "N", "_", "A" >>

\* what is on disk: no file, a file with one or two variables, and a file
\* that python-dotenv is not there to read
DotenvWorlds ==
    { NoDotenv,
      [installed |-> TRUE, found |-> TRUE, vars |-> << EnvVar(nPA, << "5" >>) >>],
      [installed |-> TRUE, found |-> TRUE,
       vars |-> << EnvVar(nPA, << "5" >>), EnvVar(nPB, << "6" >>) >>],
      [installed |-> TRUE, found |-> TRUE, vars |-> << EnvVar(nPNA, << "5" >>) >>],
      [installed |-> FALSE, found |-> TRUE, vars |-> << EnvVar(nPA, << "5" >>) >>] }

\* what the process environment holds before the constructor is called
DotenvEnvPool ==
    { EnvVar(nPA, << "9" >>), EnvVar(nPB, << "8" >>),
      EnvVar(<< "H", "O", "M", "E" >>, << "x" >>) }

DotenvDefaults ==
    { Dict(<< KV(sA, Leaf(1)), KV(sB, Leaf(1)) >>),
      Dict(<< KV(sN, Dict(<< KV(sA, Leaf(1)) >>)) >>) }

DotenvArgs ==
    [defaults : DotenvDefaults, app_defaults : { VNull }, kwargs : { EmptyDict },
     file_path : { VNull }, file_paths : { << >> }, prefix : { VStr(sP) },
     app_prefixes : { VNull }, overrides_dict : { VNull },
     mandatory : { VNull }, load_dotenv_file : BOOLEAN]

InitDotenv ==
    /\ environ \in { e \in Arrangements(DotenvEnvPool, MaxEnvNames) :
                       DistinctNames(e) }
    /\ args \in DotenvArgs
    /\ world \in DotenvWorlds
    /\ InitLocals

\* the constructor loads a .env file: asked to, package there, file found
DotenvActive ==
    /\ args.load_dotenv_file
    /\ world.installed
    /\ world.found

\* the value the environment holds for a name it has
EnvValue(env, name) ==
    env[CHOOSE i \in 1..Len(env) : env[i].name = name].value

\* no step takes a variable out of the environment or changes its value
EnvKept ==
    /\ Len(environ') >= Len(environ)
    /\ \A i \in 1..Len(environ) : environ'[i] = environ[i]

\* step 0 puts every variable of the file that the environment lacks into
\* the environment, with the value of the file
FileVarsLoaded ==
    (pc = "step0" /\ DotenvActive) =>
        \A j \in 1..Len(world.vars) :
            /\ EnvHas(environ', world.vars[j].name)
            /\ ~EnvHas(environ, world.vars[j].name)
                   => EnvValue(environ', world.vars[j].name) = world.vars[j].value

\* from step 1 on, so before the variables are collected in step 3, the
\* environment holds every variable of the file
LoadedBeforeCollected ==
    (pc # "step0" /\ DotenvActive) =>
        \A j \in 1..Len(world.vars) : EnvHas(environ, world.vars[j].name)

\* the environment layer of the finished Config is the one collected from
\* the environment that holds the file's variables, and its leaves are in
\* the Config
CollectedReachesConfig ==
    (pc = "done" /\ DotenvActive) =>
        /\ structured_env_data =
               EnvOverlay(args.prefix, environ, defaults_data, file_data,
                          args.load_dotenv_file)
        /\ \A p \in LeafPaths(structured_env_data, << >>) :
               HoldsValueOf(structured_env_data, p)

\* C13: the .env file is loaded into the process environment before the
\* environment variables are collected, so a prefixed variable that is only
\* in the file reaches the Config in the same construction, and a variable
\* the process environment already holds keeps its value there and in the
\* Config
C13_DotenvBeforeCollect ==
    /\ [][EnvKept /\ FileVarsLoaded]_vars
    /\ [] LoadedBeforeCollected
    /\ [] CollectedReachesConfig

\* P_A=5 only in the file, P_B=6 in the file and P_B=8 in the environment:
\* the Config holds a = 5 and b = 8, and the environment still says P_B=8
C13_Witness ==
    /\ pc = "done"
    /\ DotenvActive
    /\ world.vars = << EnvVar(nPA, << "5" >>), EnvVar(nPB, << "6" >>) >>
    /\ environ = << EnvVar(nPB, << "8" >>), EnvVar(nPA, << "5" >>) >>
    /\ get_by_dot(self, sA) = Ok(Leaf(5))
    /\ get_by_dot(self, sB) = Ok(Leaf(8))

\* ------------------------------------------------------------------------
\* Files that are not there
\* ------------------------------------------------------------------------

\* entries of file_paths in one construction
MaxFileEntries == 2

MissingFile(ext) == File(FALSE, ext, EmptyDict)

FilesPrimary ==
    { VNull, MissingFile("json"), MissingFile("toml"),
      File(TRUE, "json", Dict(<< KV(sA, Leaf(3)) >>)) }

\* an entry of file_paths: a path alone, or a path with a namespace
FilesEntries ==
    { [ns |-> ns, file |-> f] :
        ns \in { VNull, VStr(sN) },
        f \in { MissingFile("toml"),
                File(TRUE, "json", Dict(<< KV(sB, Leaf(4)) >>)) } }

FilesArgs ==
    [defaults : { VNull, Dict(<< KV(sA, Leaf(1)) >>) }, app_defaults : { VNull },
     kwargs : { EmptyDict }, file_path : FilesPrimary,
     file_paths : Arrangements(FilesEntries, MaxFileEntries),
     prefix : { VNull }, app_prefixes : { VNull }, overrides_dict : { VNull },
     mandatory : { VNull }, load_dotenv_file : { FALSE }]

InitFiles ==
    /\ environ = << >>
    /\ args \in FilesArgs
    /\ world = NoDotenv
    /\ InitLocals

\* file_path names a file that is not on disk
PrimaryMissing == args.file_path.t = "file" /\ ~args.file_path.exists

\* the entries of file_paths whose file is on disk
PresentEntries == SelectSeq(args.file_paths, LAMBDA e : e.file.exists)

\* the Config built from the same arguments without the missing entries
WithoutMissingEntries ==
    _wrap_nested_items(
        Cfg(MergeLayers(MergeBase(OrEmpty(args.defaults), EmptyDict,
                                  OrEmpty(IF args.file_path = VNull THEN VNull
                                          ELSE args.file_path.content)),
                        ExtraFilesData(PresentEntries), 1).kv))

\* C14: a missing primary file_path aborts the construction with a
\* file-not-found error and no Config results; a missing entry of
\* file_paths, with or without a namespace, is skipped and the construction
\* succeeds
C14_MissingFiles ==
    Finished =>
        IF PrimaryMissing
        THEN /\ pc = "raised"
             /\ exc = [type |-> "FileNotFoundError"]
             /\ self = Cfg(<< >>)
        ELSE /\ pc = "done"
             /\ exc = NoExc
             /\ self = WithoutMissingEntries

\* a construction that succeeded although an entry with a namespace and an
\* entry without one were missing
C14_Witness ==
    /\ pc = "done"
    /\ Len(args.file_paths) = 2
    /\ ~args.file_paths[1].file.exists
    /\ IsStr(args.file_paths[1].ns)
    /\ args.file_paths[2] = [ns |-> VNull, file |-> MissingFile("toml")]
    /\ args.file_path # VNull
    /\ get_by_dot(self, sA) = Ok(Leaf(3))

\* ------------------------------------------------------------------------
\* ProvenanceStore
\* ------------------------------------------------------------------------

ProvenanceEntry(value, source, key) ==
    [value |-> value, source |-> source, key |-> key]

\* a wrong record, for comparison: the entry it replaces is forgotten
record_Forgetful(e, h, key, value, source) ==
    [entries |-> SetItem(e, key, ProvenanceEntry(value, source, key)),
     history |-> h]

\* ProvenanceStore.record: the entry a key had goes to the end of the key's
\* history, the new entry becomes the current one
record(e, h, key, value, source) ==
    [entries |-> SetItem(e, key, ProvenanceEntry(value, source, key)),
     history |-> IF Has(e, key)
                 THEN SetItem(h, key,
                              Append(IF Has(h, key) THEN Item(h, key) ELSE << >>,
                                     Item(e, key)))
                 ELSE h]

\* ProvenanceStore.get: the current entry, or None
ProvenanceStore_get(e, key) == IF Has(e, key) THEN Item(e, key) ELSE VNull

\* ProvenanceStore.get_history: the replaced entries, then the current one
get_history(e, h, key) ==
    LET history == IF Has(h, key) THEN Item(h, key) ELSE << >>
        current == ProvenanceStore_get(e, key)
    IN IF current # VNull THEN Append(history, current) ELSE history

\* record calls made on one store
MaxRecords == 3

StoreKeys == { sA, pNA, sB }

StoreSources == { << "d" >>, << "e", "n", "v" >> }

InitStore ==
    /\ NoConstruction
    /\ NoMergeCall
    /\ NoCalls

\* store.record(key, value, source)
CallRecord(key, value, source) ==
    /\ Len(recorded) < MaxRecords
    /\ LET r == record(_entries, _history, key, value, source)
       IN /\ _entries' = r.entries
          /\ _history' = r.history
    /\ recorded' = Append(recorded, ProvenanceEntry(value, source, key))
    /\ UNCHANGED << cvars, hvars, ncalls >>

NextStore ==
    \E key \in { sA, pNA }, value \in { Leaf(1), Leaf(2) }, source \in StoreSources :
        CallRecord(key, value, source)

\* the record calls made for a key, in the order they were made
RecordedFor(log, key) == SelectSeq(log, LAMBDA r : r.key = key)

IsPrefixOf(p, q) == Len(p) <= Len(q) /\ SubSeq(q, 1, Len(p)) = p

\* the history of a key is the list of its record calls, and its last
\* entry is the current one; a key never recorded has neither
HistoryIsLog ==
    \A key \in StoreKeys :
        LET history == get_history(_entries, _history, key)
            current == ProvenanceStore_get(_entries, key)
        IN /\ history = RecordedFor(recorded, key)
           /\ Len(history) > 0 => history[Len(history)] = current
           /\ Len(RecordedFor(recorded, key)) = 0 =>
                  (current = VNull /\ history = << >>)

\* a record call leaves what the history of every key held before in place
\* and adds to the history of its own key only
AppendOnly ==
    \A key \in StoreKeys :
        /\ IsPrefixOf(get_history(_entries, _history, key),
                      get_history(_entries', _history', key))
        /\ (recorded' # recorded /\ recorded'[Len(recorded')].key # key)
               => /\ get_history(_entries', _history', key)
                        = get_history(_entries, _history, key)
                  /\ ProvenanceStore_get(_entries', key)
                        = ProvenanceStore_get(_entries, key)

\* C16: the ledger is append-only.  A key recorded N times has a history of
\* N entries in recording order whose last entry is what get returns; a
\* record for a key changes no earlier entry and no other key; a key never
\* recorded has no current entry and an empty history
C16_AppendOnlyLedger ==
    /\ [] HistoryIsLog
    /\ [][AppendOnly]_vars

\* key a recorded three times, from two sources, key n.a never
C16_Witness ==
    /\ Len(RecordedFor(recorded, sA)) = 3
    /\ Len(get_history(_entries, _history, sA)) = 3
    /\ get_history(_entries, _history, sA)[1].source
           # get_history(_entries, _history, sA)[3].source
    /\ ProvenanceStore_get(_entries, pNA) = VNull

\* ------------------------------------------------------------------------
\* deep_merge with a source label and a ledger
\* ------------------------------------------------------------------------

Ledger(e, h) == [entries |-> e, history |-> h]

\* a wrong recorder, for comparison: an installed mapping is recorded whole
RecordLeaves_Whole(st, value, path, source) ==
    LET r == record(st.entries, st.history, path, value, source)
    IN Ledger(r.entries, r.history)

\* the ledger after the leaves at and below an installed value are recorded
RECURSIVE RecordLeaves(_, _, _, _)
RECURSIVE RecordItems(_, _, _, _, _)
RecordLeaves(st, value, path, source) ==
    IF IsDict(value) THEN RecordItems(st, value, 1, path, source)
    ELSE LET r == record(st.entries, st.history, path, value, source)
         IN Ledger(r.entries, r.history)

RecordItems(st, d, i, path, source) ==
    IF i > Len(d.kv) THEN st
    ELSE RecordItems(RecordLeaves(st, d.kv[i].v, JoinKey(path, d.kv[i].k), source),
                     d, i + 1, path, source)

\* the loop of deep_merge with _source and _provenance, from item i of
\* updates on; path is the dot-path of the mapping being merged
RECURSIVE MergeRecordedLoop(_, _, _, _, _, _)
MergeRecordedLoop(merged, updates, i, path, source, st) ==
    IF i > Len(updates.kv) THEN [merged |-> merged, ledger |-> st]
    ELSE LET key == updates.kv[i].k
             value_updates == updates.kv[i].v
             value_base == DictGet(merged, key)
         IN IF IsDict(value_base) /\ IsDict(value_updates)
            THEN LET r == MergeRecordedLoop(value_base, value_updates, 1,
                                            JoinKey(path, key), source, st)
                 IN MergeRecordedLoop(SetItem(merged, key, r.merged), updates,
                                      i + 1, path, source, r.ledger)
            ELSE MergeRecordedLoop(SetItem(merged, key, value_updates), updates,
                                   i + 1, path, source,
                                   RecordLeaves(st, value_updates,
                                                JoinKey(path, key), source))

\* deep_merge(base, updates, _source=source, _provenance=store)
deep_merge_recorded(base, updates, source, st) ==
    MergeRecordedLoop(base, updates, 1, << >>, source, st)

\* merges made on one tree
MaxMerges == 2

pBA == << "b", ".", "a" >>

pBAB == << "b", ".", "a", ".", "b" >>

\* what a layer brings: a leaf at the top, a leaf in a mapping that is
\* there, a scalar over a mapping, a mapping that is new with a leaf two
\* levels down, an empty mapping, a list
LedgerUpdates(leaf) ==
    { Dict(<< KV(sA, leaf) >>),
      Dict(<< KV(sN, Dict(<< KV(sA, leaf) >>)), KV(sA, leaf) >>),
      Dict(<< KV(sN, Dict(<< KV(sB, leaf) >>)) >>),
      Dict(<< KV(sN, leaf) >>),
      Dict(<< KV(sB, Dict(<< KV(sA, Dict(<< KV(sB, leaf) >>)) >>)) >>),
      Dict(<< KV(sA, Dict(<< >>)) >>),
      Dict(<< KV(sA, VList(<< leaf >>)) >>) }

LedgerKeys == { sA, sB, sN, pNA, pNB, pBA, pBAB }

InitLedger ==
    /\ args = VNull
    /\ world = VNull
    /\ environ = << >>
    /\ pc = "none"
    /\ defaults_data = EmptyDict
    /\ args_kwargs_data = EmptyDict
    /\ file_data = EmptyDict
    /\ final_merged_data \in
           { EmptyDict,
             Dict(<< KV(sA, Leaf(1)), KV(sN, Dict(<< KV(sA, Leaf(1)) >>)) >>) }
    /\ structured_env_data = EmptyDict
    /\ app_env_data = << >>
    /\ structured_overrides_data = EmptyDict
    /\ self = Cfg(<< >>)
    /\ exc = NoExc
    /\ ret = NoRet
    /\ NoMergeCall
    /\ NoCalls

\* the leaves of a layer as ledger entries, in the order of its items
RECURSIVE LeafSeqFrom(_, _, _, _)
LeafSeqFrom(d, i, prefix, source) ==
    IF i > Len(d.kv) THEN << >>
    ELSE (IF IsDict(d.kv[i].v)
          THEN LeafSeqFrom(d.kv[i].v, 1, JoinKey(prefix, d.kv[i].k), source)
          ELSE << ProvenanceEntry(d.kv[i].v, source, JoinKey(prefix, d.kv[i].k)) >>)
         \o LeafSeqFrom(d, i + 1, prefix, source)

\* merged = deep_merge(merged, updates, _source=source, _provenance=store)
CallMergeRecorded(updates, source) ==
    /\ pc = "none"
    /\ ncalls < MaxMerges
    /\ LET r == deep_merge_recorded(final_merged_data, updates, source,
                                    Ledger(_entries, _history))
       IN /\ final_merged_data' = r.merged
          /\ _entries' = r.ledger.entries
          /\ _history' = r.ledger.history
    /\ recorded' = recorded \o LeafSeqFrom(updates, 1, << >>, source)
    /\ ret' = [op |-> "deep_merge", before |-> final_merged_data,
               updates |-> updates, source |-> source, ledger |-> TRUE]
    /\ ncalls' = ncalls + 1
    /\ UNCHANGED hvars
    /\ UNCHANGED << args, app_env_data, world, environ, pc, defaults_data,
                    args_kwargs_data, file_data, structured_env_data,
                    structured_overrides_data, self, exc >>

\* merged = deep_merge(merged, updates): no ledger is handed in
CallMergeUnrecorded(updates) ==
    /\ pc = "none"
    /\ ncalls < MaxMerges
    /\ final_merged_data' = deep_merge(final_merged_data, updates)
    /\ ret' = [op |-> "deep_merge", before |-> final_merged_data,
               updates |-> updates, source |-> << >>, ledger |-> FALSE]
    /\ ncalls' = ncalls + 1
    /\ UNCHANGED << hvars, _entries, _history, recorded >>
    /\ UNCHANGED << args, app_env_data, world, environ, pc, defaults_data,
                    args_kwargs_data, file_data, structured_env_data,
                    structured_overrides_data, self, exc >>

NextLedger ==
    \/ \E source \in StoreSources :
          \E updates \in LedgerUpdates(IF source = << "d" >> THEN Leaf(2) ELSE Leaf(3)) :
              CallMergeRecorded(updates, source)
    \/ \E updates \in LedgerUpdates(Leaf(4)) : CallMergeUnrecorded(updates)

\* the ledger holds, for every path, the leaves the recorded merges
\* installed at that path, in merge order, the last one being current; a
\* path at which only mappings were merged, or only the base has a value,
\* has nothing
LedgerIsInstalledLeaves ==
    \A key \in LedgerKeys :
        LET history == get_history(_entries, _history, key)
        IN /\ history = RecordedFor(recorded, key)
           /\ Len(history) > 0 =>
                  history[Len(history)] = ProvenanceStore_get(_entries, key)
           /\ \A i \in 1..Len(history) : ~IsDict(history[i].value)

\* with and without a ledger the merged tree is the one deep_merge gives
SameMergeResult ==
    ret.op = "deep_merge" =>
        final_merged_data = deep_merge(ret.before, ret.updates)

\* a merge without a ledger records nothing
UnrecordedLeavesLedger ==
    (ret'.op = "deep_merge" /\ ~ret'.ledger) =>
        (_entries' = _entries /\ _history' = _history)

\* C17: deep_merge with a source label and a ledger records (dot-path,
\* value, source) for exactly the leaf values it installs from updates,
\* fresh or overwriting, the leaves below a freshly installed mapping
\* included, nothing for a mapping merged into a mapping and nothing for
\* values only base has; after N overriding merges of a leaf its history
\* has N entries in merge order, the last being the current entry; without
\* a ledger the result is the same and nothing is recorded
C17_LedgerRecordsInstalledLeaves ==
    /\ [] (LedgerIsInstalledLeaves /\ SameMergeResult)
    /\ [][UnrecordedLeavesLedger]_vars

\* two merges from different sources overwrote a; the second also merged a
\* mapping into the mapping n, of which only the new leaf n.a is recorded
C17_Witness ==
    /\ Len(get_history(_entries, _history, sA)) = 2
    /\ get_history(_entries, _history, sA)[1].source = << "d" >>
    /\ get_history(_entries, _history, sA)[2].source = << "e", "n", "v" >>
    /\ Len(get_history(_entries, _history, pNA)) = 1
    /\ ProvenanceStore_get(_entries, sN) = VNull
    /\ get_by_dot(final_merged_data, pNA) = Ok(Leaf(3))

\* ------------------------------------------------------------------------
\* Namespaced files
\* ------------------------------------------------------------------------

sApp == << "a", "p", "p" >>

sTool == << "t", "o", "o", "l" >>

sChunking == << "c", "h", "u", "n", "k", "i", "n", "g" >>

sChunkSize == << "c", "h", "u", "n", "k", "_", "s", "i", "z", "e" >>

pAppChunkSize == sApp \o << Dot >> \o sChunking \o << Dot >> \o sChunkSize

\* what a namespaced file can hold: plain sections, the tag as a section
\* next to other keys, a tool table with and without the tag, the tag or
\* the tool key with a scalar, both forms at once, nothing
NamespaceFileData ==
    { Dict(<< KV(sChunking, Dict(<< KV(sChunkSize, VInt(2000)) >>)) >>),
      Dict(<< KV(sApp, Dict(<< KV(sA, Leaf(1)) >>)), KV(sB, Leaf(5)) >>),
      Dict(<< KV(sTool, Dict(<< KV(sApp, Dict(<< KV(sA, Leaf(2)) >>)) >>)),
              KV(sB, Leaf(5)) >>),
      Dict(<< KV(sTool, Dict(<< KV(sB, Leaf(5)) >>)), KV(sA, Leaf(5)) >>),
      Dict(<< KV(sApp, Leaf(5)) >>),
      Dict(<< KV(sTool, Dict(<< KV(sApp, Leaf(5)) >>)) >>),
      Dict(<< KV(sTool, Leaf(5)) >>),
      Dict(<< KV(sTool, Dict(<< KV(sApp, Dict(<< KV(sA, Leaf(2)) >>)) >>)),
              KV(sApp, Dict(<< KV(sA, Leaf(1)) >>)) >>),
      Dict(<< KV(sTool, Dict(<< KV(sTool, Dict(<< KV(sA, Leaf(1)) >>)) >>)) >>),
      Dict(<< >>) }

NamespaceArgs ==
    [defaults : { VNull }, app_defaults : { VNull }, kwargs : { EmptyDict },
     file_path : { VNull },
     file_paths : { << [ns |-> VStr(tag), file |-> File(TRUE, "toml", data)] >> :
                      tag \in { sApp, sTool }, data \in NamespaceFileData },
     prefix : { VNull }, app_prefixes : { VNull }, overrides_dict : { VNull },
     mandatory : { VNull }, load_dotenv_file : { FALSE }]

InitNamespace ==
    /\ environ = << >>
    /\ args \in NamespaceArgs
    /\ world = NoDotenv
    /\ InitLocals

\* is d[k] there, and a mapping?
HoldsMapping(d, k) == Has(d, k) /\ IsDict(Item(d, k))

\* what is to stand under the tag: the file's own section of that name,
\* else the section of that name in its tool table, else the whole file
UnderTag(data, tag) ==
    IF HoldsMapping(data, tag) THEN Item(data, tag)
    ELSE IF HoldsMapping(data, sTool) /\ HoldsMapping(Item(data, sTool), tag)
    THEN Item(Item(data, sTool), tag)
    ELSE data

\* C18: the data D of a file entry (path, tag) enters the merge as
\* {tag: D[tag]} when D[tag] is a mapping, else as {tag: D[tool][tag]} when
\* D[tool] is a mapping holding tag as a mapping, else as {tag: D}; the
\* result has the single top-level key tag, and data that is namespaced
\* already is not nested again
C18_Namespacing ==
    Constructed =>
        LET tag == args.file_paths[1].ns.s
            data == args.file_paths[1].file.content
            entered == _apply_namespace(data, tag)
        IN /\ Keys(self) = { tag }
           /\ Canon(Item(self, tag)) = Canon(UnderTag(data, tag))
           /\ entered = Dict(<< KV(tag, UnderTag(data, tag)) >>)
           /\ _apply_namespace(entered, tag) = entered

\* the file [chunking] chunk_size = 2000 under the tag app
C18_Witness ==
    /\ Constructed
    /\ args.file_paths[1].ns = VStr(sApp)
    /\ Has(args.file_paths[1].file.content, sChunking)
    /\ Config_get(self, pAppChunkSize, VNull) = VInt(2000)

\* ------------------------------------------------------------------------
\* set_by_dot on a finished Config and on a plain tree
\* ------------------------------------------------------------------------

\* set_by_dot calls made on one tree
MaxSets == 1

sK == << "k" >>

sZ == << "z" >>

SetDefaults ==
    { VNull,
      Dict(<< KV(sA, Dict(<< KV(sB, Leaf(1)) >>)), KV(sK, VNull),
              KV(sL, VList(<< Leaf(1) >>)) >>),
      Dict(<< KV(sA, Dict(<< KV(sB, Dict(<< KV(sC, Leaf(1)) >>)), KV(sC, Leaf(2)) >>)),
              KV(sUA, Leaf(1)) >>) }

SetKeys ==
    { sA, pAB, pAC, pABC, sZ, sZ \o << Dot >> \o sA, sK \o << Dot >> \o sA,
      sL \o << Dot >> \o sA, sUA \o << Dot >> \o sA, << >>, sA \o << Dot >> }

\* the values written: a scalar, a mapping holding a mapping and a list of
\* mappings, a list holding a mapping, a list holding a list of mappings
SetValues ==
    { Leaf(7),
      Dict(<< KV(sB, Dict(<< >>)), KV(sL, VList(<< Dict(<< >>) >>)) >>),
      VList(<< Dict(<< KV(sB, Leaf(7)) >>) >>),
      VList(<< VList(<< Dict(<< >>) >>) >>) }

SetArgs ==
    [defaults : SetDefaults, app_defaults : { VNull }, kwargs : { EmptyDict },
     file_path : { VNull }, file_paths : { << >> }, prefix : { VNull },
     app_prefixes : { VNull }, overrides_dict : { VNull },
     mandatory : { VNull }, load_dotenv_file : { FALSE }]

InitSet ==
    /\ environ = << >>
    /\ args \in SetArgs
    /\ world = NoDotenv
    /\ InitLocals

\* set_by_dot(cfg, key, value, create_missing) on the finished Config, or
\* (onConfig false) set_by_dot(d, ...) on the plain tree d = cfg.as_dict()
CallSetByDot(onConfig, key, value, create_missing) ==
    /\ pc = "done"
    /\ ncalls < MaxSets
    /\ LET tree == IF onConfig THEN self ELSE as_dict(self)
           r == set_by_dot(tree, key, value, create_missing)
       IN /\ self' = IF onConfig /\ r.ok THEN r.v ELSE self
          /\ ret' = [op |-> "set_by_dot", onConfig |-> onConfig, key |-> key,
                     value |-> value, create_missing |-> create_missing,
                     before |-> tree,
                     after |-> IF r.ok THEN r.v ELSE tree,
                     out |-> IF r.ok THEN Ok(VNull) ELSE r]
    /\ ncalls' = ncalls + 1
    /\ UNCHANGED << hvars, _entries, _history, recorded >>
    /\ UNCHANGED << args, app_env_data, world, environ, pc, defaults_data,
                    args_kwargs_data, file_data, final_merged_data,
                    structured_env_data, structured_overrides_data, exc >>

SetPath ==
    \E onConfig \in BOOLEAN, key \in SetKeys, value \in SetValues, create_missing \in BOOLEAN :
        CallSetByDot(onConfig, key, value, create_missing)

NextSet == Construct \/ SetPath

\* C19 as stated: after set_by_dot(cfg, path, value, createMissing=true) on
\* a Config, with value a mapping or a list that holds mappings, every
\* mapping reachable from the root is a Config, the intermediates created
\* on the way and the mappings inside the inserted list included
C19_SetKeepsWrapping_AsStated ==
    (pc = "done" /\ ret.op = "set_by_dot" /\ ret.onConfig /\ ret.create_missing)
        => ~HasPlainDict(self)

\* the tree after the write, compared with the tree before it, from segment
\* i on: b and a are the nodes the segments before i lead to.  Where b was a
\* mapping it keeps all its other keys; where it was absent or no mapping, a
\* is a mapping with the next segment as its only key; the last segment
\* holds the value
RECURSIVE WrittenAlong(_, _, _, _, _)
WrittenAlong(b, a, parts, i, value) ==
    /\ IsDict(a)
    /\ Has(a, parts[i])
    /\ IF IsDict(b)
       THEN /\ Keys(a) = Keys(b) \cup { parts[i] }
            /\ \A k \in Keys(b) \ { parts[i] } : Item(a, k) = Item(b, k)
       ELSE Keys(a) = { parts[i] }
    /\ IF i = Len(parts) THEN Canon(Item(a, parts[i])) = Canon(value)
       ELSE WrittenAlong(IF IsDict(b) /\ Has(b, parts[i]) THEN Item(b, parts[i])
                         ELSE VNull,
                         Item(a, parts[i]), parts, i + 1, value)

\* what a set_by_dot call is to do
SetEffect ==
    LET parts == Split(ret.key, Dot)
        found == Expected(ret.before, ret.key)
    IN IF ret.create_missing \/ found.ok
       THEN /\ ret.out.ok
            /\ WrittenAlong(ret.before, ret.after, parts, 1, ret.value)
            /\ get_by_dot(ret.after, ret.key).ok
            /\ Canon(get_by_dot(ret.after, ret.key).v) = Canon(ret.value)
       ELSE /\ ret.out = Raise(found.err)
            /\ ret.after = ret.before

\* C20: with createMissing=true set_by_dot creates the absent intermediate
\* segments as empty mappings and puts an empty mapping in place of an
\* intermediate that is no mapping; afterwards get_by_dot(tree, path)
\* returns the value, and every key that is neither on the path nor below an
\* overwritten intermediate is unchanged.  With createMissing=false it
\* raises KeyError for an absent segment, the last one included, and
\* TypeError for an intermediate that is no mapping, and leaves the tree as
\* it was
C20_SetByDotEffect ==
    /\ [] ((pc = "done" /\ ret.op = "set_by_dot") =>
              /\ SetEffect
              /\ ret.onConfig => self = ret.after)
    /\ [][(pc = "done" /\ ~ret'.out.ok) => self' = self]_vars

\* a.b held 1 and a.b.c was written with createMissing=true on a Config:
\* a.b is now a mapping with the key c alone
C20_Witness ==
    /\ pc = "done"
    /\ ret.op = "set_by_dot"
    /\ ret.onConfig
    /\ ret.create_missing
    /\ ret.key = pABC
    /\ get_by_dot(ret.before, pAB) = Ok(Leaf(1))
    /\ get_by_dot(self, pABC) = Ok(Leaf(7))
    /\ Keys(get_by_dot(self, pAB).v) = { sC }

\* ------------------------------------------------------------------------
\* Config._collect_env_vars on its own
\* ------------------------------------------------------------------------

\* the variables of os.environ in one call
MaxCollected == 2

nUserId == << "U", "S", "E", "R", "_", "I", "D" >>

nPaths == << "P", "A", "T", "H", "S" >>

nTemplateDir == << "T", "E", "M", "P", "L", "A", "T", "E", "_", "D", "I", "R" >>

nHome == << "H", "O", "M", "E" >>

nXdgA == << "X", "D", "G", "_", "A" >>

CollectPrefixes ==
    { VNull, VStr(<< >>), VStr(<< " ", " " >>), VStr(sP), VStr(<< "P", "_" >>),
      VStr(<< "P", "_", "_" >>), VStr(<< "p" >>), VStr(<< " ", "P", " " >>) }

CollectVarPool ==
    { EnvVar(<< "P", "_", "A" >>, << "1" >>),
      EnvVar(<< "P", "_", "A", "_", "B" >>, << "2" >>),
      EnvVar(<< "p", "_", "a" >>, << "3" >>),
      EnvVar(<< "P", "_", "A", "_", "_", "B" >>, << "4" >>),
      EnvVar(<< "P", "X", "_", "A" >>, << "5" >>),
      EnvVar(<< "P", "_" >>, << "6" >>),
      EnvVar(nHome, << "x" >>),
      EnvVar(nXdgA, << "8" >>),
      EnvVar(nUserId, << "9" >>),
      EnvVar(nPaths, << "y" >>),
      EnvVar(nTemplateDir, << "z" >>) }

InitCollect ==
    /\ environ \in { e \in Arrangements(CollectVarPool, MaxCollected) : DistinctNames(e) }
    /\ args = VNull
    /\ world = VNull
    /\ pc = "none"
    /\ defaults_data = EmptyDict
    /\ args_kwargs_data = EmptyDict
    /\ file_data = EmptyDict
    /\ final_merged_data = EmptyDict
    /\ structured_env_data = EmptyDict
    /\ app_env_data = << >>
    /\ structured_overrides_data = EmptyDict
    /\ self = Cfg(<< >>)
    /\ exc = NoExc
    /\ ret = NoRet
    /\ NoMergeCall
    /\ NoCalls

\* Config._collect_env_vars(prefix) with os.environ as it is
CallCollectEnvVars(prefix) ==
    /\ pc = "none"
    /\ ret = NoRet
    /\ ret' = [op |-> "_collect_env_vars", prefix |-> prefix,
               out |-> _collect_env_vars(prefix, environ)]
    /\ UNCHANGED << hvars, tvars >>
    /\ UNCHANGED << args, app_env_data, world, environ, pc, defaults_data,
                    args_kwargs_data, file_data, final_merged_data,
                    structured_env_data, structured_overrides_data, self, exc >>

NextCollect == \E prefix \in CollectPrefixes : CallCollectEnvVars(prefix)

Collected == ret # NoRet /\ ret.op = "_collect_env_vars"

\* the prefix, normalized to end in exactly one underscore
NormalizedPrefix(p) == RStripUnderscore(Strip(p)) \o << Underscore >>

\* the name starts, letter case set aside, with the normalized prefix and
\* something follows the prefix
Carries(p, name) ==
    /\ StartsWith(Upper(name), Upper(NormalizedPrefix(p)))
    /\ Len(name) > Len(NormalizedPrefix(p))

\* the dot-path of a remainder, read from left to right: two underscores
\* are one underscore of a segment, one underscore ends a segment
RECURSIVE PathOfRemainder(_)
PathOfRemainder(r) ==
    IF Len(r) = 0 THEN << >>
    ELSE IF Len(r) >= 2 /\ r[1] = Underscore /\ r[2] = Underscore
         THEN << Underscore >> \o PathOfRemainder(Drop(r, 2))
    ELSE IF r[1] = Underscore THEN << Dot >> \o PathOfRemainder(Drop(r, 1))
    ELSE << LowerCh(r[1]) >> \o PathOfRemainder(Drop(r, 1))

PathOfName(p, name) == PathOfRemainder(Drop(name, Len(NormalizedPrefix(p))))

\* one path is the other or lies on the way to it
PathsCollide(p, q) ==
    LET a == Split(p, Dot)
        b == Split(q, Dot)
    IN IF Len(a) <= Len(b) THEN SubSeq(b, 1, Len(a)) = a
       ELSE SubSeq(a, 1, Len(b)) = b

\* variable i is placed at its path with its parsed value
PlacedAtPath(p, i) ==
    get_by_dot(ret.out, PathOfName(p, environ[i].name))
        = Ok(ParsedValue(VStr(environ[i].value)))

\* every leaf of the result is the path of a variable that carries the prefix
OnlyCarriers(p) ==
    \A q \in LeafPaths(ret.out, << >>) :
        \E i \in 1..Len(environ) :
            Carries(p, environ[i].name) /\ PathOfName(p, environ[i].name) = q

Uncontested(p, i) ==
    \A j \in 1..Len(environ) :
        (j # i /\ Carries(p, environ[j].name))
            => ~PathsCollide(PathOfName(p, environ[i].name),
                             PathOfName(p, environ[j].name))

OnDenyList(name) ==
    \E i \in 1..Len(system_prefixes_or_names) :
        LET entry == system_prefixes_or_names[i]
        IN IF Len(entry) > 1 /\ entry[Len(entry)] = Underscore
           THEN StartsWith(Upper(name), entry)
           ELSE Upper(name) = entry

\* no other variable that is off the list has the path of variable i, a path
\* below it or a path above it
UncontestedName(i) ==
    \A j \in 1..Len(environ) :
        (j # i /\ ~OnDenyList(environ[j].name))
            => ~PathsCollide(PathOfRemainder(environ[i].name),
                             PathOfRemainder(environ[j].name))

\* C22 as stated: with prefix "" a variable is left out only when it is a
\* listed system variable or belongs to a listed family; every other
\* variable (TEMPLATE_DIR, USER_ID, PATHS) is collected, each single
\* underscore of its name giving a nesting level.
C22_EmptyPrefix_AsStated ==
    (Collected /\ ret.prefix = VStr(<< >>)) =>
        /\ \A i \in 1..Len(environ) :
               (~OnDenyList(environ[i].name) /\ UncontestedName(i))
                   => get_by_dot(ret.out, PathOfRemainder(environ[i].name))
                          = Ok(ParsedValue(VStr(environ[i].value)))
        /\ \A q \in LeafPaths(ret.out, << >>) :
               \E i \in 1..Len(environ) :
                   /\ ~OnDenyList(environ[i].name)
                   /\ PathOfRemainder(environ[i].name) = q

\* ------------------------------------------------------------------------
\* Config._remap_and_flatten_env_data on its own
\* ------------------------------------------------------------------------

\* the variables of os.environ in one call
MaxRemapVars == 2

sS == << "s" >>

pSA == << "s", ".", "a" >>

pSAK == << "s", ".", "a", ".", "k" >>

sAK == << "a", "_", "k" >>

sSAK == << "s", "_", "a", "_", "k" >>

RemapVarPool ==
    { EnvVar(<< "P", "_", "S", "_", "A", "_", "K" >>, << "1" >>),
      EnvVar(<< "P", "_", "S", "_", "A", "_", "_", "K" >>, << "2" >>),
      EnvVar(<< "P", "_", "S", "_", "A" >>, << "3" >>),
      EnvVar(<< "P", "_", "S" >>, << "4" >>),
      EnvVar(<< "P", "_", "X", "_", "Y" >>, << "5" >>),
      EnvVar(<< "P", "_", "X", "_", "_", "Y" >>, << "6" >>),
      EnvVar(<< "P", "_", "S", "_", "_", "A", "_", "K" >>, << "7" >>) }

\* defaults: no s, s an empty mapping, a mapping below s, s a scalar, s a
\* list, a flat key s_a_k next to the mapping s, a key a_k inside s
RemapDefaults ==
    { EmptyDict,
      Dict(<< KV(sS, EmptyDict) >>),
      Dict(<< KV(sS, Dict(<< KV(sA, EmptyDict) >>)) >>),
      Dict(<< KV(sS, Leaf(0)) >>),
      Dict(<< KV(sS, VList(<< Leaf(0) >>)) >>),
      Dict(<< KV(sS, EmptyDict), KV(sSAK, Leaf(0)) >>),
      Dict(<< KV(sS, Dict(<< KV(sAK, Leaf(0)) >>)) >>) }

\* file data: none, or s a scalar
RemapFileData == { EmptyDict, Dict(<< KV(sS, Leaf(9)) >>) }

InitRemap ==
    /\ environ \in { e \in Arrangements(RemapVarPool, MaxRemapVars) : DistinctNames(e) }
    /\ args = VNull
    /\ world = VNull
    /\ pc = "none"
    /\ defaults_data = EmptyDict
    /\ args_kwargs_data = EmptyDict
    /\ file_data = EmptyDict
    /\ final_merged_data = EmptyDict
    /\ structured_env_data = EmptyDict
    /\ app_env_data = << >>
    /\ structured_overrides_data = EmptyDict
    /\ self = Cfg(<< >>)
    /\ exc = NoExc
    /\ ret = NoRet
    /\ NoMergeCall
    /\ NoCalls

\* Step 3 of __init__ up to the remapping: the environment is collected and,
\* when something was collected, remapped against defaults and file data
CallRemap(defaults, fdata, prefix, load_dotenv_file) ==
    /\ pc = "none"
    /\ ret = NoRet
    /\ LET nested_env_data == _collect_env_vars(prefix, environ)
       IN /\ Len(nested_env_data.kv) > 0
          /\ ret' = [op |-> "_remap_and_flatten_env_data",
                     nested |-> nested_env_data,
                     known |-> deep_merge(defaults, fdata),
                     prefix |-> prefix,
                     load_dotenv_file |-> load_dotenv_file,
                     out |-> _remap_and_flatten_env_data(
                                 nested_env_data, defaults, fdata, prefix,
                                 load_dotenv_file)]
    /\ UNCHANGED << hvars, tvars >>
    /\ UNCHANGED << args, app_env_data, world, environ, pc, defaults_data,
                    args_kwargs_data, file_data, final_merged_data,
                    structured_env_data, structured_overrides_data, self, exc >>

NextRemap ==
    \E defaults \in RemapDefaults, fdata \in RemapFileData, load_dotenv_file \in BOOLEAN :
        CallRemap(defaults, fdata, VStr(sP), load_dotenv_file)

Remapped == ret # NoRet /\ ret.op = "_remap_and_flatten_env_data"

\* the overlay dot-paths and the value the overlay holds at one of them
OverlayPaths == LeafPaths(ret.nested, << >>)

OverlayValue(q) == get_by_dot(ret.nested, q).v

\* q is a key of the known structure
IsKnownKey(q) == get_by_dot(ret.known, q).ok

\* rule (a): the underscore-joined path, split again at its first
\* underscore, is a known key
RuleACandidate(q) ==
    LET flat == UnderscoreJoin(q)
        i == CHOOSE j \in 1..Len(flat) :
                 flat[j] = Underscore /\ \A k \in 1..(j - 1) : flat[k] # Underscore
    IN SubSeq(flat, 1, i - 1) \o << Dot >> \o Drop(flat, i)

RuleAApplies(q) ==
    HasCh(UnderscoreJoin(q), Underscore) /\ IsKnownKey(RuleACandidate(q))

\* the first n segments of q, and the segments after them joined by
\* underscores
DotPrefix(q, n) == Join(SubSeq(Split(q, Dot), 1, n), Dot)

JoinedRest(q, n) == Join(Drop(Split(q, Dot), n), Underscore)

\* the lengths of the proper dot-prefixes of q that are known keys holding a
\* mapping
MappingPrefixes(q) ==
    { n \in 1..(Len(Split(q, Dot)) - 1) :
        IsKnownKey(DotPrefix(q, n)) /\ IsDict(get_by_dot(ret.known, DotPrefix(q, n)).v) }

\* rule (b): the longest such prefix, then the rest joined by underscores
RuleBTarget(q) ==
    LET n == Highest(MappingPrefixes(q))
    IN DotPrefix(q, n) \o << Dot >> \o JoinedRest(q, n)

\* no two overlay paths were given the same key
NoTargetShared == Len(ret.out.kv) = Cardinality(OverlayPaths)

\* the remapped overlay holds the value of q under key
MappedTo(q, key) ==
    /\ Has(ret.out, key)
    /\ NoTargetShared => Item(ret.out, key) = OverlayValue(q)

\* q is left to the fallback: kept in dot form or joined by underscores
LeftToFallback(q) ==
    \/ MappedTo(q, q)
    \/ MappedTo(q, UnderscoreJoin(q))

\* C23 as stated: an overlay path that rule (a) does not apply to is mapped
\* to <prefix>.<rest joined by underscores> for its longest proper
\* dot-prefix that is a known key holding a mapping; a known key holding a
\* scalar or a sequence is never chosen as the prefix.
C23_LongestMappingPrefix_AsStated ==
    Remapped =>
        \A q \in OverlayPaths :
            ~RuleAApplies(q) =>
                IF MappingPrefixes(q) # { } THEN MappedTo(q, RuleBTarget(q))
                ELSE LeftToFallback(q)

\* C23, amended: the same for an overlay path that rule (a) does not apply
\* to and whose underscore-joined form is not itself a known key.
C23_LongestMappingPrefix ==
    Remapped =>
        \A q \in OverlayPaths :
            (~RuleAApplies(q) /\ ~IsKnownKey(UnderscoreJoin(q))) =>
                IF MappingPrefixes(q) # { } THEN MappedTo(q, RuleBTarget(q))
                ELSE LeftToFallback(q)

\* s.a.k with the mapping s.a known: the key is s.a.k; with only the mapping
\* s known the key is s.a_k
C23_Witness ==
    /\ Remapped
    /\ OverlayPaths = { pSAK }
    /\ \/ /\ MappingPrefixes(pSAK) = { 1, 2 }
          /\ ret.out = Dict(<< KV(pSAK, Leaf(1)) >>)
       \/ /\ MappingPrefixes(pSAK) = { 1 }
          /\ ret.out = Dict(<< KV(sS \o << Dot >> \o sAK, Leaf(1)) >>)

\* the key the remapping gives to the overlay path q
TargetOf(q) ==
    RemappedKey(q, _flatten_keys(ret.known, << >>), ret.known, ret.prefix,
                ret.load_dotenv_file)

\* the overlay paths that are given the key
Claimants(key) == { q \in OverlayPaths : TargetOf(q) = key }

Segments(q) == Len(Split(q, Dot))

\* the claimants of a key with the most segments
Deepest(S) == { q \in S : \A r \in S : Segments(r) <= Segments(q) }

\* C24: every overlay path has its target among the keys of the remapped
\* overlay, every key is the target of some path, and a key that several
\* paths are mapped to holds the value of a path with the most segments
\* among them, whatever the order in which the overlay lists them.
C24_DeepestClaimsFirst ==
    Remapped =>
        /\ Keys(ret.out) = { TargetOf(q) : q \in OverlayPaths }
        /\ \A key \in Keys(ret.out) :
               \E q \in Deepest(Claimants(key)) :
                   Item(ret.out, key) = OverlayValue(q)

\* s.a_k is listed before s.a.k and both are mapped to s.a_k: the key holds
\* the value of s.a.k
C24_Witness ==
    /\ Remapped
    /\ Len(ret.nested.kv) = 1
    /\ ret.nested.kv[1].v
           = Dict(<< KV(sAK, Leaf(2)), KV(sA, Dict(<< KV(<< "k" >>, Leaf(1)) >>)) >>)
    /\ Claimants(sS \o << Dot >> \o sAK) = { pSAK, sS \o << Dot >> \o sAK }
    /\ ret.out = Dict(<< KV(sS \o << Dot >> \o sAK, Leaf(1)) >>)

\* ------------------------------------------------------------------------
\* Environment variables that no known key matches
\* ------------------------------------------------------------------------

\* the variables of os.environ before the construction
MaxUnmatched == 2

sXY == << "x", "_", "y" >>

pXdotY == << "x", ".", "y" >>

UnmatchedVarPool ==
    { EnvVar(<< "P", "_", "X", "_", "Y" >>, << "5" >>),
      EnvVar(<< "P", "_", "Z" >>, << "6" >>),
      EnvVar(<< "P", "_", "X", "_", "W" >>, << "7" >>) }

\* python-dotenv installed and no .env file, python-dotenv installed and a
\* .env file, python-dotenv not installed
DotenvNotFound == [installed |-> TRUE, found |-> FALSE, vars |-> << >>]

DotenvFound ==
    [installed |-> TRUE, found |-> TRUE,
     vars |-> << EnvVar(<< "P", "_", "X", "_", "V" >>, << "8" >>) >>]

FallbackArgs ==
    [defaults : { VNull, Dict(<< KV(sQ, Leaf(1)) >>) }, app_defaults : { VNull },
     kwargs : { EmptyDict }, file_path : { VNull }, file_paths : { << >> },
     prefix : { VStr(<< >>), VStr(sP) }, app_prefixes : { VNull },
     overrides_dict : { VNull }, mandatory : { VNull },
     load_dotenv_file : BOOLEAN]

InitFallback ==
    /\ environ \in { e \in Arrangements(UnmatchedVarPool, MaxUnmatched) : DistinctNames(e) }
    /\ args \in FallbackArgs
    /\ world \in { NoDotenv, DotenvNotFound, DotenvFound }
    /\ InitLocals

\* a dotenv file was loaded by this construction
DotenvFileLoaded == args.load_dotenv_file /\ world.installed /\ world.found

\* variable i was in the environment when it was collected
ReadByCollect(i) ==
    DotenvFileLoaded \/ \A j \in 1..Len(world.vars) : world.vars[j] # environ[i]

\* variable i is collected under the prefix of the call, and its dot-path
IsCandidate(i) ==
    IF args.prefix = VStr(<< >>) THEN ~OnDenyList(environ[i].name)
    ELSE Carries(args.prefix.s, environ[i].name)

CandidatePath(i) ==
    IF args.prefix = VStr(<< >>) THEN PathOfRemainder(environ[i].name)
    ELSE PathOfName(args.prefix.s, environ[i].name)

\* no key of defaults or file data begins the name of the path, so that
\* neither remap rule has a known key to go by
NoRuleMatches(q) ==
    \A k \in Keys(KnownBase) : ~StartsWith(UnderscoreJoin(q), k)

\* the Config holds the parsed value of variable i at the dot-path q, or
\* under the one top-level key q joined by underscores
KeptAsPath(i, q) ==
    /\ get_by_dot(self, q) = Ok(ParsedValue(VStr(environ[i].value)))
    /\ HasCh(q, Dot) => ~Has(self, UnderscoreJoin(q))

CollapsedToKey(i, q) ==
    /\ Has(self, UnderscoreJoin(q))
    /\ Item(self, UnderscoreJoin(q)) = ParsedValue(VStr(environ[i].value))
    /\ HasCh(q, Dot) => ~get_by_dot(self, q).ok

\* C25 as stated: the construction never fails on a variable that no rule
\* matches; its dot form is kept when the prefix is empty or a dotenv file
\* was loaded, and with a non-empty prefix and no dotenv file loaded
\* (loading disabled, or enabled and no file found) the path collapses to
\* one underscore-joined top-level key.
C25_FallbackByMode_AsStated ==
    /\ exc = NoExc
    /\ Constructed =>
           \A i \in 1..Len(environ) :
               (ReadByCollect(i) /\ IsCandidate(i) /\ NoRuleMatches(CandidatePath(i)))
                 => IF args.prefix = VStr(<< >>) \/ DotenvFileLoaded
                    THEN KeptAsPath(i, CandidatePath(i))
                    ELSE CollapsedToKey(i, CandidatePath(i))

\* ------------------------------------------------------------------------
\* _parse_value on its own
\* ------------------------------------------------------------------------

\* the deepest array text given to _parse_value
MaxNesting == 4

\* "[]" inside n - 1 further pairs of brackets
RECURSIVE Nested(_)
Nested(n) == IF n <= 1 THEN << "[", "]" >> ELSE << "[" >> \o Nested(n - 1) \o << "]" >>

ParseCores ==
    { << "t", "r", "u", "e" >>,
      << "T", "R", "U", "E" >>,
      << "F", "a", "l", "s", "e" >>,
      << "n", "u", "l", "l" >>,
      << "N", "u", "l", "l" >>,
      << "t", "r", "u" >>,
      << "7" >>,
      << "+", "7" >>,
      << "-", "7" >>,
      << "1", "_", "0" >>,
      << "0", "7" >>,
      << "7", "_" >>,
      << "1", ".", "5" >>,
      << ".", "5" >>,
      << "1", "." >>,
      << "." >>,
      << "1", "e", "3" >>,
      << "n", "a", "n" >>,
      << "-", "i", "n", "f" >>,
      << "x" >>,
      << >>,
      << "-" >>,
      << "\"", "a", "\"" >>,
      << "\"", "a" >>,
      << "\"" >>,
      << "\"", "\"" >>,
      << "\"", "t", "r", "u", "e", "\"" >>,
      << "\"", "7", "\"" >>,
      << "\"", "a", "\"", "b", "\"" >>,
      << "[", "]" >>,
      << "[", "1", "]" >>,
      << "[", " ", "1", " ", "]" >>,
      << "[", "1" >>,
      << "[", "x", "]" >>,
      << "[", "0", "1", "]" >>,
      << "{", "}" >>,
      << "{", "a", "}" >>,
      << "{" >>,
      << "]" >> }
    \cup { Nested(n) : n \in 2..MaxNesting }

ParsePads == { << >>, << " " >> }

\* the raw values given to _parse_value: values that are no strings, and
\* the texts above with and without white space around them
ParseInputs ==
    { VNull, VBool(TRUE), VInt(7), VList(<< >>), Dict(<< >>) }
    \cup { VStr(l \o c \o r) : l \in ParsePads, c \in ParseCores, r \in ParsePads }

InitParse ==
    /\ args \in ParseInputs
    /\ environ = << >>
    /\ world = VNull
    /\ pc = "none"
    /\ defaults_data = EmptyDict
    /\ args_kwargs_data = EmptyDict
    /\ file_data = EmptyDict
    /\ final_merged_data = EmptyDict
    /\ structured_env_data = EmptyDict
    /\ app_env_data = << >>
    /\ structured_overrides_data = EmptyDict
    /\ self = Cfg(<< >>)
    /\ exc = NoExc
    /\ ret = NoRet
    /\ NoMergeCall
    /\ NoCalls

\* _parse_value(raw_value) for the raw value in args
CallParseValue ==
    /\ pc = "none"
    /\ ret = NoRet
    /\ ret' = [op |-> "_parse_value", raw_value |-> args, out |-> _parse_value(args)]
    /\ UNCHANGED << hvars, tvars >>
    /\ UNCHANGED << args, app_env_data, world, environ, pc, defaults_data,
                    args_kwargs_data, file_data, final_merged_data,
                    structured_env_data, structured_overrides_data, self, exc >>

NextParse == CallParseValue

Parsed == ret # NoRet /\ ret.op = "_parse_value"

\* the text starts with {, [ or a double quote and ends with the matching
\* closing character
MatchingEnds(t) ==
    /\ Len(t) > 0
    /\ \/ t[1] = "{" /\ t[Len(t)] = "}"
       \/ t[1] = "[" /\ t[Len(t)] = "]"
       \/ t[1] = Quote /\ t[Len(t)] = Quote

\* the text is a JSON document
Decodes(t) == Len(t) > 1 /\ JsonLoads(t).ok

\* the value the precedence of the rules gives for a raw value
ByTheRules(raw_value) ==
    IF raw_value.t # "str" THEN raw_value
    ELSE LET t == Strip(raw_value.s)
         IN IF Lower(t) = << "t", "r", "u", "e" >> THEN VBool(TRUE)
            ELSE IF Lower(t) = << "f", "a", "l", "s", "e" >> THEN VBool(FALSE)
            ELSE IF Lower(t) = << "n", "u", "l", "l" >> THEN VNull
            ELSE IF IsIntText(t) THEN VInt(IntValue(t))
            ELSE IF IsFloatText(t) THEN VFloat(t)
            ELSE IF MatchingEnds(t) /\ Decodes(t) THEN JsonLoads(t).v
            ELSE raw_value

\* the call returned the value the rules give
ReturnsByTheRules == ret.out.ok /\ ret.out.v = ByTheRules(ret.raw_value)

\* C26: _parse_value never raises: a value that is no string comes back
\* unchanged, and a string is stripped and read as true/false (any case),
\* null (any case), an integer, a float, or JSON when it starts with {, [ or
\* a double quote and ends with the matching character and decodes; a string
\* that fits none of these, or fails to decode, comes back as it was given
C26_ParseNeverRaises_AsStated == Parsed => ReturnsByTheRules

\* every call that returns returns the value the rules give
ParseReturnsByTheRules == Parsed /\ ret.out.ok => ReturnsByTheRules

\* the calls that raise are the ones given more arrays inside arrays than
\* the interpreter's recursion limit
ParseRaisesOnlyWhenTooDeep ==
    Parsed /\ ~ret.out.ok =>
        /\ ret.out.err = "RecursionError"
        /\ \E n \in (RecursionLimit + 1)..MaxNesting : Strip(ret.raw_value.s) = Nested(n)

ParseRaised == Parsed /\ ~ret.out.ok
ParseDecodedJson == Parsed /\ ret.out.ok /\ ret.raw_value.t = "str" /\ ret.out.v.t \in {"list", "map"}

\* ------------------------------------------------------------------------
\* TOML key promotion
\* ------------------------------------------------------------------------

\* top-level items of the primary file
MaxFileItems == 3

PromotionDefaults ==
    { VNull,
      Dict(<< KV(sK, Leaf(0)) >>),
      Dict(<< KV(sL, Leaf(0)) >>),
      Dict(<< KV(sK, Leaf(0)), KV(sL, Leaf(0)) >>) }

\* a key at the root, sections that hold keys of the defaults and other
\* keys, an empty section, a section whose name is a key of the defaults,
\* and a section inside a section
PromotionItemPool ==
    { KV(sK, Leaf(1)),
      KV(sS, Dict(<< KV(sK, Leaf(2)) >>)),
      KV(sS, Dict(<< KV(sK, Leaf(2)), KV(sX, Leaf(3)) >>)),
      KV(sS, Dict(<< >>)),
      KV(sS, Dict(<< KV(sM, Dict(<< KV(sK, Leaf(7)) >>)) >>)),
      KV(sM, Dict(<< KV(sK, Leaf(4)) >>)),
      KV(sM, Dict(<< KV(sL, Leaf(5)) >>)),
      KV(sL, Dict(<< KV(sK, Leaf(6)) >>)) }

PromotionContents ==
    { Dict(q) : q \in { r \in Arrangements(PromotionItemPool, MaxFileItems) :
                          \A i, j \in 1..Len(r) : i # j => r[i].k # r[j].k } }

PromotionArgs ==
    [defaults : PromotionDefaults, app_defaults : { VNull },
     kwargs : { EmptyDict },
     file_path : { File(TRUE, ext, content) :
                     ext \in { "toml", "json" }, content \in PromotionContents },
     file_paths : { << >> },
     prefix : { VNull }, app_prefixes : { VNull }, overrides_dict : { VNull },
     mandatory : { VNull }, load_dotenv_file : { FALSE }]

InitPromotion ==
    /\ environ = << >>
    /\ args \in PromotionArgs
    /\ world = NoDotenv
    /\ InitLocals

\* the primary file has been loaded into file_data
PrimaryLoaded == pc \notin { "step0", "step1", "raised" }

\* what the file defines, and the root-level keys of defaults
FileContent == args.file_path.content
DefaultRootKeys == Keys(OrEmpty(args.defaults))

\* the file is TOML and is loaded with non-empty defaults
PromotionApplies ==
    /\ args.file_path.ext = "toml"
    /\ DefaultRootKeys # {}

\* item i of the file is a top-level section that holds key
SectionHolds(i, key) ==
    /\ IsDict(FileContent.kv[i].v)
    /\ Has(FileContent.kv[i].v, key)

\* the keys that are moved to the root: root-level keys of defaults inside a
\* top-level section that the file itself does not define at the root
PromotedKeys ==
    { key \in DefaultRootKeys :
        /\ ~Has(FileContent, key)
        /\ \E i \in 1..Len(FileContent.kv) : SectionHolds(i, key) }

\* the last section of the file that holds key
LastSectionWith(key) ==
    CHOOSE i \in 1..Len(FileContent.kv) :
        /\ SectionHolds(i, key)
        /\ \A j \in (i + 1)..Len(FileContent.kv) : ~SectionHolds(j, key)

\* a top-level value of the file without the keys that are moved
WithoutPromoted(v) ==
    IF IsDict(v)
    THEN Dict(SelectSeq(v.kv, LAMBDA e : e.k \notin PromotedKeys))
    ELSE v

\* the root-level items of the file data the rule gives
PromotionResult ==
    { [k |-> FileContent.kv[i].k, v |-> Canon(WithoutPromoted(FileContent.kv[i].v))] :
        i \in { n \in 1..Len(FileContent.kv) :
                  \/ ~IsDict(FileContent.kv[n].v)
                  \/ Len(WithoutPromoted(FileContent.kv[n].v).kv) > 0 } }
    \cup { [k |-> key,
            v |-> Canon(Item(FileContent.kv[LastSectionWith(key)].v, key))] :
           key \in PromotedKeys }

\* C27: a TOML primary file loaded with non-empty defaults has each key of a
\* top-level section that is a root-level key of defaults moved to the root
\* and removed from its section, unless the file defines the key at the
\* root, in which case the section keeps it; a key moved from several
\* sections has the value of the last of them; a section left empty is
\* removed; a JSON file is taken as it is
C27_TomlPromotion_AsStated ==
    PrimaryLoaded =>
        /\ PromotionApplies => Canon(file_data).items = PromotionResult
        /\ args.file_path.ext = "json" => Canon(file_data) = Canon(FileContent)

\* a root-level key of defaults that the file defines at the root as a
\* section, which promotion empties (or which is empty), and that a later
\* section holds as well
RootSectionVanishes ==
    \E i \in 1..Len(FileContent.kv) :
        /\ FileContent.kv[i].k \in DefaultRootKeys
        /\ IsDict(FileContent.kv[i].v)
        /\ Len(WithoutPromoted(FileContent.kv[i].v).kv) = 0
        /\ \E j \in (i + 1)..Len(FileContent.kv) :
               SectionHolds(j, FileContent.kv[i].k)

\* the rule holds for every file but those
PromotionButVanishing ==
    PrimaryLoaded /\ PromotionApplies /\ ~RootSectionVanishes =>
        Canon(file_data).items = PromotionResult

\* a TOML file loaded without defaults is taken as it is
NoPromotionWithoutDefaults ==
    PrimaryLoaded /\ DefaultRootKeys = {} => Canon(file_data) = Canon(FileContent)

PromotedFromTwoSections ==
    /\ PrimaryLoaded
    /\ PromotionApplies
    /\ \E key \in PromotedKeys :
          \E i, j \in 1..Len(FileContent.kv) :
              i # j /\ SectionHolds(i, key) /\ SectionHolds(j, key)

\* ------------------------------------------------------------------------
\* How often an environment value is parsed
\* ------------------------------------------------------------------------

\* variables in the environment of one construction
MaxOnceVars == 2

OnceNames == { << "P", "_", "A", "_", "B" >>, << "P", "_", "C" >> }

\* raw values: plain ones, and ones in JSON quotes
OnceValues ==
    { << "7" >>,
      << "\"", "7", "\"" >>,
      << "\"", "t", "r", "u", "e", "\"" >>,
      << "\"", "n", "u", "l", "l", "\"" >>,
      << "\"", "[", "1", "]", "\"" >>,
      << "\"", "a", "\"" >>,
      << "x" >>,
      << "t", "r", "u", "e" >>,
      << "[", "1", "]" >>,
      << "\"", " ", "7", "\"" >> }

OnceVarPool == { EnvVar(name, value) : name \in OnceNames, value \in OnceValues }

OnceArgs ==
    [defaults : { VNull, Dict(<< KV(sA, Dict(<< KV(sB, Leaf(1)) >>)) >>) },
     app_defaults : { VNull }, kwargs : { EmptyDict }, file_path : { VNull },
     file_paths : { << >> }, prefix : { VStr(sP) }, app_prefixes : { VNull },
     overrides_dict : { VNull }, mandatory : { VNull },
     load_dotenv_file : BOOLEAN]

InitOnce ==
    /\ environ \in { e \in Arrangements(OnceVarPool, MaxOnceVars) : DistinctNames(e) }
    /\ args \in OnceArgs
    /\ world = NoDotenv
    /\ InitLocals

\* the final path variable i resolves to: the key the remapping gives it
ResolvedPath(i) ==
    _remap_and_flatten_env_data(
        _collect_env_vars(args.prefix, << environ[i] >>),
        defaults_data, file_data, args.prefix, args.load_dotenv_file).kv[1].k

RawValue(i) == VStr(environ[i].value)

ValueAt(path) == get_by_dot(self, path)

\* variable i ended in the Config as v
EndsAs(i, v) ==
    /\ ValueAt(ResolvedPath(i)).ok
    /\ Canon(ValueAt(ResolvedPath(i)).v) = Canon(v)

\* C28: each environment value is parsed exactly once: the Config holds, at
\* the final path of every collected variable, the parse of its raw string,
\* so a raw value in JSON quotes such as "123" or "true" stays a string
C28_ParsedOnce_AsStated ==
    Constructed => \A i \in 1..Len(environ) : EndsAs(i, ParsedValue(RawValue(i)))

\* what the Config holds is the parse of the parse
ParsedTwice ==
    Constructed =>
        \A i \in 1..Len(environ) : EndsAs(i, ParsedValue(ParsedValue(RawValue(i))))

QuotedNumberCollected ==
    /\ Constructed
    /\ \E i \in 1..Len(environ) : environ[i].value = << "\"", "7", "\"" >>

\* ------------------------------------------------------------------------
\* The order in which the environment is iterated
\* ------------------------------------------------------------------------

\* variables in the environment of one construction
MaxOrderVars == 2

\* a variable whose path is a prefix of another's, two names that differ in
\* letter case, two names whose paths of equal depth share a target key,
\* and a name apart from all of these
OrderVarPool ==
    { EnvVar(<< "P", "_", "A" >>, << "1" >>),
      EnvVar(<< "P", "_", "A", "_", "B" >>, << "2" >>),
      EnvVar(<< "p", "_", "a" >>, << "3" >>),
      EnvVar(<< "P", "_", "S", "_", "A", "_", "_", "K" >>, << "4" >>),
      EnvVar(<< "P", "_", "S", "_", "_", "A", "_", "K" >>, << "5" >>),
      EnvVar(<< "P", "_", "C" >>, << "6" >>) }

OrderDefaults ==
    { VNull,
      Dict(<< KV(sA, Dict(<< KV(sB, Leaf(0)) >>)) >>),
      Dict(<< KV(sSAK, Leaf(0)) >>) }

OrderArgs ==
    [defaults : OrderDefaults, app_defaults : { VNull }, kwargs : { EmptyDict },
     file_path : { VNull }, file_paths : { << >> }, prefix : { VStr(sP) },
     app_prefixes : { VNull }, overrides_dict : { VNull }, mandatory : { VNull },
     load_dotenv_file : BOOLEAN]

InitOrder ==
    /\ environ \in { e \in Arrangements(OrderVarPool, MaxOrderVars) : DistinctNames(e) }
    /\ args \in OrderArgs
    /\ world = NoDotenv
    /\ InitLocals

\* the orders in which the variables of env can be iterated
IterationOrders(env) ==
    { e \in Arrangements({ env[i] : i \in 1..Len(env) }, Len(env)) :
        Len(e) = Len(env) /\ NoRepeat(e) }

\* the Config the construction yields when the environment is iterated as env
TreeFor(env) ==
    LET base == MergeBase(OrEmpty(args.defaults), EmptyDict, EmptyDict)
        overlay == EnvOverlay(args.prefix, env, OrEmpty(args.defaults), EmptyDict,
                              args.load_dotenv_file)
    IN _wrap_nested_items(
           Cfg((IF Len(_collect_env_vars(args.prefix, env).kv) > 0
                THEN deep_merge(base, overlay) ELSE base).kv))

\* the constructed Config is the one for the order the environment has
BuiltInOrder == Constructed => Canon(self) = Canon(TreeFor(environ))

\* C29: the constructed Config depends on the set of (name, value) pairs of
\* the environment only: every iteration order of the same environment
\* yields an equal tree, also when one path is a prefix of another, when two
\* names differ in letter case, or when two paths of equal depth have the
\* same target key
C29_OrderIndependent_AsStated ==
    Constructed => \A e \in IterationOrders(environ) : Canon(TreeFor(e)) = Canon(self)

\* the paths variable i is collected at, and the paths it sets in the
\* overlay, when it is the only variable of the environment
CollectedAlone(i) == LeafPaths(_collect_env_vars(args.prefix, << environ[i] >>), << >>)

SetsAlone(i) ==
    LeafPaths(EnvOverlay(args.prefix, << environ[i] >>, OrEmpty(args.defaults),
                         EmptyDict, args.load_dotenv_file), << >>)

\* variables i and j contend: the path of one is the path of the other or
\* lies on the way to it, where they are collected or where they end
Contend(i, j) ==
    \/ \E p \in CollectedAlone(i), q \in CollectedAlone(j) : PathsCollide(p, q)
    \/ \E p \in SetsAlone(i), q \in SetsAlone(j) : PathsCollide(p, q)

\* the order is immaterial when no two variables contend
OrderIndependentApart ==
    Constructed /\ (\A i, j \in 1..Len(environ) : i # j => ~Contend(i, j)) =>
        \A e \in IterationOrders(environ) : Canon(TreeFor(e)) = Canon(self)

TwoVariablesBuilt == Constructed /\ Len(environ) = 2

\* ------------------------------------------------------------------------
\* Construction with load_dotenv_file=False
\* ------------------------------------------------------------------------

\* defaults and initial data without and with nested mappings and lists of
\* mappings
QuietDefaults ==
    { VNull,
      Dict(<< KV(sA, Leaf(1)) >>),
      Dict(<< KV(sN, Dict(<< KV(sA, Leaf(1)) >>)) >>),
      Dict(<< KV(sL, VList(<< Dict(<< KV(sA, Leaf(1)) >>) >>)) >>),
      Dict(<< KV(sL, VList(<< Leaf(1) >>)) >>) }

QuietData == { EmptyDict, Dict(<< KV(sM, Dict(<< KV(sX, Leaf(1)) >>)) >>) }

QuietArgs ==
    [defaults : QuietDefaults, app_defaults : { VNull }, kwargs : QuietData,
     file_path : { VNull }, file_paths : { << >> }, prefix : { VNull, VStr(sP) },
     app_prefixes : { VNull }, overrides_dict : { VNull },
     mandatory : { VNull }, load_dotenv_file : BOOLEAN]

InitQuiet ==
    /\ environ \in { e \in Arrangements(DotenvEnvPool, MaxEnvNames) :
                       DistinctNames(e) }
    /\ args \in QuietArgs
    /\ world \in DotenvWorlds
    /\ InitLocals

DotenvNotRequested == ~args.load_dotenv_file

\* the values the Config holds at its leaves
LeafValues == { get_by_dot(self, p).v : p \in LeafPaths(self, << >>) }

\* no value of the dotenv file is in the Config (the values of the file are
\* values that nothing else supplies)
NoDotenvVariableInConfig ==
    \A j \in 1..Len(world.vars) :
        ParsedValue(VStr(world.vars[j].value)) \notin LeafValues

\* C30: a construction with load_dotenv_file=False never loads a dotenv
\* file: no step of it changes the process environment, and no variable of
\* the dotenv file is in the Config, whatever the defaults and the data
C30_NoDotenvWhenDisabled_AsStated ==
    /\ [][DotenvNotRequested => environ' = environ]_vars
    /\ [](Constructed /\ DotenvNotRequested => NoDotenvVariableInConfig)

\* the Config itself holds no variable of the file
ConfigFreeOfDotenv ==
    Constructed /\ DotenvNotRequested => NoDotenvVariableInConfig

\* the merged data hold a plain mapping below the root, which wrapping turns
\* into a Config of its own
WrapsNested == BuildsNestedConfig(Cfg(final_merged_data.kv))

\* the process environment is left alone when nothing nested is wrapped
EnvironKeptWhenFlat ==
    [][DotenvNotRequested /\ ~WrapsNested => environ' = environ]_vars

\* the one step that changes it is the wrapping of nested mappings
EnvironChangedByWrapOnly ==
    [][DotenvNotRequested /\ environ' # environ => pc = "step5" /\ WrapsNested]_vars

NestedWrappedQuietly ==
    /\ Constructed
    /\ DotenvNotRequested
    /\ WrapsNested
    /\ world.installed /\ world.found

Init == InitPrecedence

Next == Construct

Spec == Init /\ [][Next]_vars

SpecEnv == InitEnv /\ [][Next]_vars

SpecOverrides == InitOverrides /\ [][Next]_vars

SpecMandatory == InitMandatory /\ [][Next]_vars

SpecMerge == InitMerge /\ [][NextMerge]_vars

SpecAccess == InitAccess /\ [][NextAccess]_vars

NextAttr == Construct \/ SetAttr

SpecAttr == InitAttr /\ [][NextAttr]_vars

SpecDotenv == InitDotenv /\ [][Next]_vars

SpecFiles == InitFiles /\ [][Next]_vars

SpecStore == InitStore /\ [][NextStore]_vars

SpecLedger == InitLedger /\ [][NextLedger]_vars

SpecNamespace == InitNamespace /\ [][Next]_vars

SpecSet == InitSet /\ [][NextSet]_vars

NextNode == Construct \/ CallAsDict \/ AttrAccess

SpecNode == InitNode /\ [][NextNode]_vars

SpecCollect == InitCollect /\ [][NextCollect]_vars

SpecRemap == InitRemap /\ [][NextRemap]_vars

SpecFallback == InitFallback /\ [][Next]_vars

SpecParse == InitParse /\ [][NextParse]_vars

SpecPromotion == InitPromotion /\ [][Next]_vars

SpecOnce == InitOnce /\ [][Next]_vars

SpecOrder == InitOrder /\ [][Next]_vars

SpecQuiet == InitQuiet /\ [][Next]_vars

====
